---------------------------- MODULE Spec2Model ----------------------------
(***************************************************************************)
(* State-machine model of the command-line validators of the repository:   *)
(*   validate_markdown.py     (MarkdownValidator, main)                     *)
(*   validate_marketplace.py  (MarketplaceValidator, main)                  *)
(*   validate_java8.py        (Java8Validator, main)                        *)
(*   validate_recipe.py       (validate_recipe, main)                       *)
(* and of the scaffold generator init_plugin.py.                            *)
(* One behaviour is one process run of one tool on one input, or one use   *)
(* of a validator class by a caller: validate() called twice on one         *)
(* MarketplaceValidator ("marketplace_twice"), or the checks of validate()  *)
(* called in some order ("markdown_rules", "marketplace_rules").  Text is a *)
(* sequence of one-character strings, so that prefix tests, strip() and     *)
(* the regular expressions are computed and not assumed.                    *)
(***************************************************************************)
EXTENDS Integers, Sequences, FiniteSets, TLC

VARIABLES
    tool,             \* which script this process runs, or which use of a class
    pc,               \* position of the process in main() / validate()
    argv,             \* "ok" or "bad": whether the command line is well formed
    pathKind,         \* "missing", "file", "dir" or "other": what the path names
    suffix,           \* the suffix of the path (Path.suffix)
    fileRead,         \* what opening and parsing the file yields
    exitCode,         \* process exit status, -1 while the process runs
    success,          \* return value of validate(): "none" until it returns
    errors,           \* self.errors (the collected Error diagnostics)
    warnings,         \* self.warnings
    printed,          \* diagnostics written by the reporter, in output order
    summary,          \* the closing line of print_report / print_results
    files,            \* the files the path names: one for a file, rglob's list for a directory
    fileIdx,          \* index in files of the file being validated
    lines,            \* MarkdownValidator.lines
    i,                \* loop index of the running line scan (1-based)
    prev_level,       \* _check_heading_hierarchy: prev_level
    heading_levels,   \* MarkdownValidator.heading_levels
    in_code_block,    \* _check_code_blocks: in_code_block
    code_block_start, \* _check_code_blocks: code_block_start
    returned,         \* the list validate() returned to validate_file
    results,          \* main: results, the list of (file, errors) pairs
    manifest,         \* the JSON value the marketplace file holds
    data,             \* MarketplaceValidator.data
    plugin_names,     \* _validate_plugins: plugin_names
    idx,              \* _validate_plugins: idx of the loop over the plugins (0-based)
    violations,       \* Java8Validator.violations
    content,          \* validate_recipe: what the checks find in the file's content
    skip_compile,     \* validate_recipe: skip_compile (--no-compile)
    javac,            \* what running javac yields
    reruns,           \* how often a client has called validate() again on the object
    first,            \* what the first call of validate() left, once it is called again
    order,            \* the order in which the checks of validate() are called
    applied,          \* how many checks of order have been called
    plugin_name,      \* init_plugin: --name
    output_dir,       \* init_plugin: "cwd" without --output, else its value
    writable,         \* init_plugin: whether directories can be made below output_dir
    fs0,              \* init_plugin: the file system when the process starts
    fs                \* init_plugin: the file system

mdVars == <<files, fileIdx, lines, i, prev_level, heading_levels, in_code_block,
            code_block_start, returned, results>>
envVars == <<tool, argv, pathKind, suffix, fileRead>>
runVars == <<pc, exitCode, success, errors, warnings, printed, summary>>
mkVars == <<manifest, data, plugin_names, idx>>
jvVars == <<violations>>
rcVars == <<content, skip_compile, javac>>
apiVars == <<reruns, first, order, applied>>
ipVars == <<plugin_name, output_dir, writable, fs0, fs>>
vars == <<envVars, runVars, mdVars, mkVars, jvVars, rcVars, apiVars, ipVars>>

-----------------------------------------------------------------------------
(* Bounds of the model                                                      *)

MaxLines == 3

\* directory mode: number of files found by rglob, and lines per file
MaxFiles == 2

MaxDirLines == 1

\* number of entries of the plugins array of a manifest
MaxPlugins == 3

\* number of lines of a Java file given by name
MaxJavaLines == 2

\* lines of a markdown file whose checks are called in every order
MaxRuleLines == 2

-----------------------------------------------------------------------------
(* Text helpers: str.startswith, str.strip, str.split, str.lower            *)

Whitespace == {" ", "\t"}

UpperCase == {"A", "B", "C", "H", "T"}

ToLowerChar(c) ==
    CASE c = "A" -> "a"
      [] c = "B" -> "b"
      [] c = "C" -> "c"
      [] c = "H" -> "h"
      [] c = "T" -> "t"
      [] OTHER -> c

Lower(s) == [k \in 1..Len(s) |-> ToLowerChar(s[k])]

StartsWith(s, p) == Len(s) >= Len(p) /\ SubSeq(s, 1, Len(p)) = p

EndsWith(s, p) == Len(s) >= Len(p) /\ SubSeq(s, Len(s) - Len(p) + 1, Len(s)) = p

RECURSIVE LStrip(_)
LStrip(s) ==
    IF s # <<>> /\ Head(s) \in Whitespace THEN LStrip(Tail(s)) ELSE s

RECURSIVE RStrip(_)
RStrip(s) ==
    IF s # <<>> /\ s[Len(s)] \in Whitespace
    THEN RStrip(SubSeq(s, 1, Len(s) - 1))
    ELSE s

Strip(s) == RStrip(LStrip(s))

\* the first whitespace-free run of s (s does not start with whitespace)
RECURSIVE FirstWord(_)
FirstWord(s) ==
    IF s = <<>> \/ Head(s) \in Whitespace THEN <<>>
    ELSE <<Head(s)>> \o FirstWord(Tail(s))

\* str.split(): the whitespace-separated words of s
RECURSIVE Split(_)
Split(s) ==
    LET t == LStrip(s)
        w == FirstWord(t)
    IN IF t = <<>> THEN <<>>
       ELSE <<w>> \o Split(SubSeq(t, Len(w) + 1, Len(t)))

-----------------------------------------------------------------------------
(* validate_markdown.py: the line predicates                                *)

Hash2 == <<"#", " ">>

\* the backquote character (written "^": a string literal cannot hold a backquote)
BQ == "^"

Fence3 == <<BQ, BQ, BQ>>

\* number of leading '#' characters
RECURSIVE HashRun(_)
HashRun(s) == IF s # <<>> /\ Head(s) = "#" THEN 1 + HashRun(Tail(s)) ELSE 0

\* re.match(r'^(#{1,6})\s+(.+)', line): one to six '#', then whitespace, then
\* at least one more character before the end of the line
IsHeading(line) ==
    LET k == HashRun(line)
    IN /\ k >= 1
       /\ k <= 6
       /\ Len(line) >= k + 2
       /\ line[k + 1] \in Whitespace

\* len(match.group(1))
HeadingLevel(line) == HashRun(line)

\* match.group(2).strip()
HeadingTitle(line) == Strip(SubSeq(line, HashRun(line) + 1, Len(line)))

small_words ==
    { <<"a">>, <<"a","n">>, <<"t","h","e">>, <<"a","n","d">>, <<"b","u","t">>,
      <<"o","r">>, <<"f","o","r">>, <<"n","o","r">>, <<"o","n">>, <<"a","t">>,
      <<"t","o">>, <<"f","r","o","m">>, <<"b","y">>, <<"w","i","t","h">> }

\* _is_title_case: more than half of the words after the first are capitalised
\* and not small words
IsTitleCase(text) ==
    LET words == Split(text)
        capitalized_count ==
            Cardinality({k \in 2..Len(words) :
                /\ words[k] # <<>>
                /\ words[k][1] \in UpperCase
                /\ Lower(words[k]) \notin small_words})
    IN IF Len(words) < 3 \/ StartsWith(text, <<BQ>>)
       THEN FALSE
       ELSE 2 * capitalized_count > Len(words) - 1

\* line.strip().startswith(three backquotes)
IsFence(line) == StartsWith(Strip(line), Fence3)

\* line.strip()[3:].strip()
FenceContent(line) ==
    LET t == Strip(line) IN Strip(SubSeq(t, 4, Len(t)))

\* index of the first occurrence of c in s at or after p, 0 when there is none
RECURSIVE IndexFrom(_, _, _)
IndexFrom(s, c, p) ==
    IF p > Len(s) THEN 0
    ELSE IF s[p] = c THEN p
    ELSE IndexFrom(s, c, p + 1)

\* re.finditer(r'\[([^\]]+)\]\(([^)]+)\)', line) from position p on: the
\* (link_text, link_url) pairs of the non-overlapping matches, left to right
RECURSIVE LinksFrom(_, _)
LinksFrom(s, p) ==
    IF p > Len(s) THEN <<>>
    ELSE
      LET q == IF s[p] = "[" THEN IndexFrom(s, "]", p + 1) ELSE 0
          r == IF q > p + 1 /\ q + 1 <= Len(s) /\ s[q + 1] = "("
               THEN IndexFrom(s, ")", q + 2) ELSE 0
      IN IF r > q + 2 /\ q > 0
         THEN <<[link_text |-> SubSeq(s, p + 1, q - 1),
                 link_url |-> SubSeq(s, q + 2, r - 1)]>> \o LinksFrom(s, r + 1)
         ELSE LinksFrom(s, p + 1)

NonDescriptive ==
    { <<"c","l","i","c","k"," ","h","e","r","e">>, <<"h","e","r","e">>,
      <<"r","e","a","d"," ","m","o","r","e">>, <<"m","o","r","e">> }

\* ValidationError(line_num, error_type, message); the message text is fixed
\* by the error type and is left out
MdError(n, t) == [line_num |-> n, error_type |-> t]

\* HeadingErrors with the comparison one level too strict ('level > prev'):
\* C8 does not hold of it
HeadingErrorsOffByOne(n, line, prev) ==
    (IF HeadingLevel(line) > prev
     THEN <<MdError(n, "HEADING_SKIP")>> ELSE <<>>)
    \o (IF IsTitleCase(HeadingTitle(line)) /\ HeadingLevel(line) <= 3
        THEN <<MdError(n, "TITLE_CASE")>> ELSE <<>>)

\* the findings of one iteration of the loop of _check_heading_hierarchy
HeadingErrors(n, line, prev) ==
    (IF HeadingLevel(line) > prev + 1
     THEN <<MdError(n, "HEADING_SKIP")>> ELSE <<>>)
    \o (IF IsTitleCase(HeadingTitle(line)) /\ HeadingLevel(line) <= 3
        THEN <<MdError(n, "TITLE_CASE")>> ELSE <<>>)

\* the findings of _check_links for one match
LinkErrors(n, l) ==
    (IF Lower(l.link_text) \in NonDescriptive
     THEN <<MdError(n, "LINK_TEXT")>> ELSE <<>>)
    \o (IF Strip(l.link_text) = <<>>
        THEN <<MdError(n, "LINK_EMPTY")>> ELSE <<>>)
    \o (IF Strip(l.link_url) = <<>>
        THEN <<MdError(n, "LINK_EMPTY_URL")>> ELSE <<>>)

RECURSIVE LineLinkErrors(_, _)
LineLinkErrors(n, links) ==
    IF links = <<>> THEN <<>>
    ELSE LinkErrors(n, Head(links)) \o LineLinkErrors(n, Tail(links))

\* the findings of _check_links for the lines n, n+1, ... of ls
RECURSIVE AllLinkErrors(_, _)
AllLinkErrors(ls, n) ==
    IF n > Len(ls) THEN <<>>
    ELSE LineLinkErrors(n, LinksFrom(ls[n], 1)) \o AllLinkErrors(ls, n + 1)

\* h1_count that leaves out the lines inside a fenced block: C23 does not
\* hold of it
h1_count_OutsideBlocks(ls) ==
    Cardinality({n \in 1..Len(ls) :
        /\ StartsWith(ls[n], Hash2)
        /\ Cardinality({k \in 1..(n - 1) : IsFence(ls[k])}) % 2 = 0})

\* sum(1 for line in self.lines if line.startswith('# '))
h1_count(ls) == Cardinality({n \in 1..Len(ls) : StartsWith(ls[n], Hash2)})

\* the findings of _check_basic_structure
BasicStructureErrors(ls) ==
    (IF h1_count(ls) = 0 THEN <<MdError(1, "NO_H1")>> ELSE <<>>)
    \o (IF h1_count(ls) > 1 THEN <<MdError(1, "MULTIPLE_H1")>> ELSE <<>>)

\* the check of an opening fence that does not look at what follows the
\* backquotes: C22 does not hold of it
CodeBlockLangErrorsAnyContent(n, line) == <<MdError(n, "CODE_BLOCK_LANG")>>

\* _check_code_blocks: the finding at an opening fence
CodeBlockLangErrors(n, line) ==
    IF FenceContent(line) = <<>>
    THEN <<MdError(n, "CODE_BLOCK_LANG")>> ELSE <<>>

\* UnclosedErrors anchored at the last line of the document instead of the
\* opening fence: C9 does not hold of it
UnclosedErrorsAtLastLine(inside, start) ==
    IF inside THEN <<MdError(Len(lines), "CODE_BLOCK_UNCLOSED")>> ELSE <<>>

\* _check_code_blocks: the finding behind the loop
UnclosedErrors(inside, start) ==
    IF inside THEN <<MdError(start, "CODE_BLOCK_UNCLOSED")>> ELSE <<>>

\* one insertion of the stable sort: e goes behind every element whose key is
\* not larger
RECURSIVE InsertByLine(_, _)
InsertByLine(s, e) ==
    IF s = <<>> THEN <<e>>
    ELSE IF s[Len(s)].line_num <= e.line_num THEN Append(s, e)
    ELSE Append(InsertByLine(SubSeq(s, 1, Len(s) - 1), e), s[Len(s)])

\* sorted(self.errors, key=lambda e: e.line_num)
RECURSIVE SortedByLine(_)
SortedByLine(s) ==
    IF s = <<>> THEN <<>>
    ELSE InsertByLine(SortedByLine(SubSeq(s, 1, Len(s) - 1)), s[Len(s)])

-----------------------------------------------------------------------------
(* The inputs                                                               *)

SeqsUpTo(S, n) == UNION {[1..k -> S] : k \in 0..n}

MdLineAlphabet ==
    { <<"#", " ", "t">>,                          \* "# t"
      <<"#", "#", " ", "t">>,                     \* "## t"
      <<"#", "#", "#", " ", "t">>,                \* "### t"
      <<"#", " ", "A", " ", "B", " ", "C">>,      \* "# A B C" (title case)
      <<"#", "\t", "t">>,                         \* "#<tab>t"
      <<"#", " ">>,                               \* "# " with nothing behind
      Fence3,                                     \* a fence without language
      Fence3 \o <<"p">>,                          \* a fence with a language
      <<" ", BQ, BQ, BQ>>,                        \* an indented fence
      <<"t">>,                                    \* plain text
      <<"[", "h", "e", "r", "e", "]", "(", "u", ")">> }   \* "[here](u)"

MdDirLineAlphabet ==
    { <<"#", " ", "t">>, <<"#", "#", " ", "t">>, Fence3, <<"t">> }

TextFile(text) == [read |-> "ok", text |-> text]

UnreadableFile == [read |-> "unreadable", text |-> <<>>]

MdSingleFiles ==
    {TextFile(t) : t \in SeqsUpTo(MdLineAlphabet, MaxLines)} \cup {UnreadableFile}

MdDirFiles ==
    {TextFile(t) : t \in SeqsUpTo(MdDirLineAlphabet, MaxDirLines)} \cup {UnreadableFile}

-----------------------------------------------------------------------------
(* Initial states: the process has started and nothing has run yet          *)

\* nothing printed yet
NoSummary == [line |-> "", args |-> <<>>]

\* what validate() has left on the object: the two lists and the value returned
Result(e, w, r) == [errors |-> e, warnings |-> w, success |-> r]

RunInit ==
    /\ pc = "main"
    /\ reruns = 0
    /\ first = Result(<<>>, <<>>, "none")
    /\ applied = 0
    /\ exitCode = -1
    /\ success = "none"
    /\ errors = <<>>
    /\ warnings = <<>>
    /\ printed = <<>>
    /\ summary = NoSummary

MdInit ==
    /\ fileIdx = 0
    /\ lines = <<>>
    /\ i = 0
    /\ prev_level = 0
    /\ heading_levels = <<>>
    /\ in_code_block = FALSE
    /\ code_block_start = 0
    /\ returned = <<>>
    /\ results = <<>>

\* python validate_markdown.py <file_or_directory>
InitMarkdown ==
    /\ tool = "markdown"
    /\ fileRead = "ok"
    /\ \/ /\ argv = "bad"
          /\ pathKind = "missing"
          /\ suffix = "md"
          /\ files = <<>>
       \/ /\ argv = "ok"
          /\ pathKind \in {"missing", "other"}
          /\ suffix \in {"md", "txt"}
          /\ files = <<>>
       \/ /\ argv = "ok"
          /\ pathKind = "file"
          /\ suffix = "txt"
          /\ files = <<>>
       \/ /\ argv = "ok"
          /\ pathKind = "file"
          /\ suffix = "md"
          /\ files \in {<<f>> : f \in MdSingleFiles}
       \/ /\ argv = "ok"
          /\ pathKind = "dir"
          /\ suffix = "md"
          /\ files \in SeqsUpTo(MdDirFiles, MaxFiles)

-----------------------------------------------------------------------------
(* validate_markdown.py                                                     *)

\* sys.exit(code)
Exit(code) ==
    /\ pc' = "exited"
    /\ exitCode' = code

\* main, up to the dispatch on the kind of path
MdMain ==
    /\ tool = "markdown"
    /\ pc = "main"
    /\ IF \/ argv = "bad"
          \/ pathKind \in {"missing", "other"}
          \/ pathKind = "file" /\ suffix # "md"
       THEN /\ Exit(1)
            /\ UNCHANGED fileIdx
       ELSE /\ fileIdx' = 1
            /\ pc' = IF files = <<>> THEN "md_print" ELSE "md_new"
            /\ UNCHANGED exitCode
    /\ UNCHANGED <<ipVars, summary, apiVars, rcVars, jvVars, mkVars, envVars, success, errors, warnings, printed, files, lines, i,
                   prev_level, heading_levels, in_code_block, code_block_start,
                   returned, results>>

\* validate_file: validator = MarkdownValidator(file_path)
MdNewValidator ==
    /\ pc = "md_new"
    /\ errors' = <<>>
    /\ lines' = <<>>
    /\ heading_levels' = <<>>
    /\ pc' = "md_validate"
    /\ UNCHANGED <<ipVars, summary, apiVars, rcVars, jvVars, mkVars, envVars, exitCode, success, warnings, printed, files, fileIdx, i,
                   prev_level, in_code_block, code_block_start, returned, results>>

\* validate(): reading the file, and the entry of _check_heading_hierarchy
MdValidateOpen ==
    /\ pc = "md_validate"
    /\ IF files[fileIdx].read = "ok"
       THEN /\ lines' = files[fileIdx].text
            /\ prev_level' = 0
            /\ i' = 1
            /\ pc' = "md_heading"
            /\ UNCHANGED returned
       ELSE /\ returned' = <<MdError(0, "FILE_ERROR")>>
            /\ pc' = "md_collect"
            /\ UNCHANGED <<lines, prev_level, i>>
    /\ UNCHANGED <<ipVars, summary, apiVars, rcVars, jvVars, mkVars, envVars, exitCode, success, errors, warnings, printed, files,
                   fileIdx, heading_levels, in_code_block, code_block_start, results>>

\* _check_heading_hierarchy: one iteration of the loop over the lines
MdHeadingStep ==
    /\ pc = "md_heading"
    /\ i <= Len(lines)
    /\ IF IsHeading(lines[i])
       THEN /\ heading_levels' = Append(heading_levels, HeadingLevel(lines[i]))
            /\ errors' = errors \o HeadingErrors(i, lines[i], prev_level)
            /\ prev_level' = HeadingLevel(lines[i])
       ELSE UNCHANGED <<heading_levels, errors, prev_level>>
    /\ i' = i + 1
    /\ UNCHANGED <<ipVars, summary, apiVars, rcVars, jvVars, mkVars, envVars, pc, exitCode, success, warnings, printed, files, fileIdx,
                   lines, in_code_block, code_block_start, returned, results>>

\* the loop is over; entry of _check_code_blocks
MdHeadingDone ==
    /\ pc = "md_heading"
    /\ i > Len(lines)
    /\ in_code_block' = FALSE
    /\ code_block_start' = 0
    /\ i' = 1
    /\ pc' = "md_code"
    /\ UNCHANGED <<ipVars, summary, apiVars, rcVars, jvVars, mkVars, envVars, exitCode, success, errors, warnings, printed, files,
                   fileIdx, lines, prev_level, heading_levels, returned, results>>

\* _check_code_blocks: one iteration of the loop over the lines
MdCodeBlockStep ==
    /\ pc = "md_code"
    /\ i <= Len(lines)
    /\ IF IsFence(lines[i])
       THEN IF ~in_code_block
            THEN /\ in_code_block' = TRUE
                 /\ code_block_start' = i
                 /\ errors' = errors \o CodeBlockLangErrors(i, lines[i])
            ELSE /\ in_code_block' = FALSE
                 /\ UNCHANGED <<code_block_start, errors>>
       ELSE UNCHANGED <<in_code_block, code_block_start, errors>>
    /\ i' = i + 1
    /\ UNCHANGED <<ipVars, summary, apiVars, rcVars, jvVars, mkVars, envVars, pc, exitCode, success, warnings, printed, files, fileIdx,
                   lines, prev_level, heading_levels, returned, results>>

\* _check_code_blocks: the check for an unclosed block behind the loop
MdCodeBlocksEnd ==
    /\ pc = "md_code"
    /\ i > Len(lines)
    /\ errors' = errors \o UnclosedErrors(in_code_block, code_block_start)
    /\ pc' = "md_links"
    /\ UNCHANGED <<ipVars, summary, apiVars, rcVars, jvVars, mkVars, envVars, exitCode, success, warnings, printed, files, fileIdx,
                   lines, i, prev_level, heading_levels, in_code_block,
                   code_block_start, returned, results>>

\* _check_links
MdCheckLinks ==
    /\ pc = "md_links"
    /\ errors' = errors \o AllLinkErrors(lines, 1)
    /\ pc' = "md_basic"
    /\ UNCHANGED <<ipVars, summary, apiVars, rcVars, jvVars, mkVars, envVars, exitCode, success, warnings, printed, mdVars>>

\* _check_basic_structure
MdCheckBasicStructure ==
    /\ pc = "md_basic"
    /\ errors' = errors \o BasicStructureErrors(lines)
    /\ pc' = "md_return"
    /\ UNCHANGED <<ipVars, summary, apiVars, rcVars, jvVars, mkVars, envVars, exitCode, success, warnings, printed, mdVars>>

\* validate(): return sorted(self.errors, key=lambda e: e.line_num)
MdValidateReturn ==
    /\ pc = "md_return"
    /\ returned' = SortedByLine(errors)
    /\ pc' = "md_collect"
    /\ UNCHANGED <<ipVars, summary, apiVars, rcVars, jvVars, mkVars, envVars, exitCode, success, errors, warnings, printed, files,
                   fileIdx, lines, i, prev_level, heading_levels, in_code_block,
                   code_block_start, results>>

\* main / validate_directory: if errors: results.append((file_path, errors)),
\* then the next file of the directory, or print_results
MdCollect ==
    /\ pc = "md_collect"
    /\ results' = IF returned # <<>>
                  THEN Append(results, [file |-> fileIdx, errors |-> returned])
                  ELSE results
    /\ fileIdx' = fileIdx + 1
    /\ pc' = IF fileIdx < Len(files) THEN "md_new" ELSE "md_print"
    /\ UNCHANGED <<ipVars, summary, apiVars, rcVars, jvVars, mkVars, envVars, exitCode, success, errors, warnings, printed, files,
                   lines, i, prev_level, heading_levels, in_code_block,
                   code_block_start, returned>>

\* the lines print_results writes for the diagnostics, in order
RECURSIVE MdPrintedLines(_)
MdPrintedLines(rs) ==
    IF rs = <<>> THEN <<>>
    ELSE [k \in 1..Len(Head(rs).errors) |->
             [file |-> Head(rs).file,
              line_num |-> Head(rs).errors[k].line_num,
              error_type |-> Head(rs).errors[k].error_type]]
         \o MdPrintedLines(Tail(rs))

\* total_errors that counts the files and not their findings: C24 does not
\* hold of it
total_errors_Files(rs) == Len(rs)

\* print_results: the number of findings in all files
RECURSIVE total_errors(_)
total_errors(rs) ==
    IF rs = <<>> THEN 0 ELSE Len(Head(rs).errors) + total_errors(Tail(rs))

\* print_results: its only line without findings; its last line of text with
\* findings, args the number formatted into it
MdSummary(rs) ==
    IF rs = <<>>
    THEN [line |-> "No validation errors found!", args |-> <<>>]
    ELSE [line |-> "Total: {} error(s)", args |-> <<total_errors(rs)>>]

\* print_results(results)
MdPrintResults ==
    /\ pc = "md_print"
    /\ printed' = MdPrintedLines(results)
    /\ summary' = MdSummary(results)
    /\ pc' = "md_exit"
    /\ UNCHANGED <<ipVars, apiVars, rcVars, jvVars, mkVars, envVars, exitCode, success, errors, warnings, mdVars>>

\* sys.exit(1 if results else 0)
MdExit ==
    /\ pc = "md_exit"
    /\ Exit(IF results # <<>> THEN 1 ELSE 0)
    /\ UNCHANGED <<ipVars, summary, apiVars, rcVars, jvVars, mkVars, envVars, success, errors, warnings, printed, mdVars>>

-----------------------------------------------------------------------------
(* validate_marketplace.py: JSON values and the file system                 *)

\* a JSON field: absent, a string (its characters in s) or a non-string
\* (a number other than 0: truthy, hashable, neither iterable nor a str)
Absent == [t |-> "absent", s |-> <<>>]

Str(s) == [t |-> "str", s |-> s]

Num == [t |-> "int", s |-> <<>>]

\* a JSON array field: absent, a non-array, or the list of its items
NoList == [t |-> "absent", items |-> <<>>]

NumList == [t |-> "int", items |-> <<>>]

List(items) == [t |-> "list", items |-> items]

\* a component entry and a plugin entry: an object with its fields, or a non-object
Component(path) == [t |-> "object", path |-> path]

NumComponent == [t |-> "int", path |-> Absent]

Plugin(name, source, version, description, agents, commands, skills) ==
    [t |-> "object", name |-> name, source |-> source, version |-> version,
     description |-> description, agents |-> agents, commands |-> commands,
     skills |-> skills]

NumPlugin ==
    [t |-> "int", name |-> Absent, source |-> Absent, version |-> Absent,
     description |-> Absent, agents |-> NoList, commands |-> NoList,
     skills |-> NoList]

\* the top-level value: an object with its fields, a number, or the array []
Manifest(plugins, pluginRoot) ==
    [t |-> "object", plugins |-> plugins, pluginRoot |-> pluginRoot]

NumManifest == [t |-> "int", plugins |-> NoList, pluginRoot |-> Absent]

ListManifest == [t |-> "list", plugins |-> NoList, pluginRoot |-> Absent]

DotSlash == <<".", "/">>

\* the directories and the files below base_dir, as relative paths
ExistingDirs == { <<>>, <<"p">>, <<"p", "/", "d">> }

ExistingFiles == { <<"f">>, <<"p", "/", "x">> }

\* Path.exists() and Path.is_dir() of base_dir / path
PathExists(path) == path \in ExistingDirs \cup ExistingFiles

PathIsDir(path) == path \in ExistingDirs

\* a / b of pathlib for relative parts
JoinPath(a, b) ==
    IF a = <<>> THEN b
    ELSE IF b = <<>> THEN a
    ELSE a \o <<"/">> \o b

\* str.lstrip(chars)
RECURSIVE LStripChars(_, _)
LStripChars(s, chars) ==
    IF s # <<>> /\ Head(s) \in chars THEN LStripChars(Tail(s), chars) ELSE s

LowerCase ==
    {"a", "b", "c", "d", "e", "f", "h", "i", "k", "l", "m", "n", "o", "p", "q",
     "r", "t", "u", "w", "x", "y"}

Digits == {"0", "1", "2", "3", "4", "5", "6", "7", "8", "9"}

\* _is_valid_kebab_case(name) for a str
IsValidKebabCase(name) ==
    /\ name # <<>>
    /\ \A k \in 1..Len(name) : name[k] \in LowerCase \cup Digits \cup {"-"}
    /\ ~StartsWith(name, <<"-">>)
    /\ ~EndsWith(name, <<"-">>)
    /\ ~\E k \in 1..(Len(name) - 1) : name[k] = "-" /\ name[k + 1] = "-"

\* ValidationError(level, path, message): the path is "marketplace.json" or
\* "pluginRoot" (n = -1), or plugins[n] followed by .field, [c] and .sub;
\* arg is the value the message quotes
MkError(level, n, field, c, sub, message, arg) ==
    [level |-> level, idx |-> n, field |-> field, cidx |-> c, sub |-> sub,
     message |-> message, arg |-> arg]

\* what a piece of a rule leaves behind: the errors and warnings it appended
\* and whether it raised
Outcome(e, w, r) == [e |-> e, w |-> w, r |-> r]

\* a; b: b runs unless a raised
Then(a, b) ==
    IF a.r THEN a ELSE Outcome(a.e \o b.e, a.w \o b.w, b.r)

-----------------------------------------------------------------------------
(* validate_marketplace.py: the rules                                       *)

\* _validate_structure on self.data
ValidateStructure(d) ==
    IF d.t = "int"
    THEN Outcome(<<>>, <<>>, TRUE)      \* '"plugins" not in 5' raises TypeError
    ELSE IF d.t = "list" \/ d.plugins.t = "absent"
    THEN Outcome(<<MkError("error", -1, "marketplace.json", -1, "",
                           "Missing required field 'plugins'", <<>>)>>,
                 <<>>, FALSE)
    ELSE Outcome(
           (IF d.plugins.t # "list"
            THEN <<MkError("error", -1, "marketplace.json", -1, "",
                           "'plugins' must be an array", <<>>)>>
            ELSE <<>>)
           \o (IF d.pluginRoot.t \notin {"absent", "str"}
               THEN <<MkError("error", -1, "pluginRoot", -1, "",
                              "Must be a string", <<>>)>>
               ELSE <<>>),
           IF d.pluginRoot.t = "str" /\ ~StartsWith(d.pluginRoot.s, DotSlash)
           THEN <<MkError("warning", -1, "pluginRoot", -1, "",
                          "Should start with './' for relative paths", <<>>)>>
           ELSE <<>>,
           FALSE)

\* the name part of one iteration of _validate_plugins (lines 143-173)
NameOutcome(plugin, n, names) ==
    IF plugin.name.t = "absent"
    THEN Outcome(<<MkError("error", n, "", -1, "",
                           "Missing required field 'name'", <<>>)>>, <<>>, FALSE)
    ELSE Outcome(
           IF plugin.name \in names
           THEN <<MkError("error", n, "name", -1, "",
                          "Duplicate plugin name", plugin.name.s)>>
           ELSE <<>>,
           IF plugin.name.t = "str" /\ ~IsValidKebabCase(plugin.name.s)
           THEN <<MkError("warning", n, "name", -1, "",
                          "should use kebab-case", plugin.name.s)>>
           ELSE <<>>,
           \* all(... for c in name) raises TypeError on a number
           plugin.name.t # "str")

\* NamesAfter without 'plugin_names.add(name)': C7 does not hold of it
NamesAfterForgets(plugin, names) == names

\* plugin_names after the iteration
NamesAfter(plugin, names) ==
    IF plugin.t = "object" /\ plugin.name.t # "absent"
    THEN names \cup {plugin.name}
    ELSE names

\* _validate_source_path that returns behind the prefix Error: C26 does not
\* hold of it
ValidateSourcePathPrefixOnly(source, n) ==
    IF source.t # "str"
    THEN Outcome(<<MkError("error", n, "source", -1, "",
                           "Source must be a string", <<>>)>>, <<>>, FALSE)
    ELSE IF ~StartsWith(source.s, DotSlash)
    THEN Outcome(<<MkError("error", n, "source", -1, "",
                           "must start with './'", source.s)>>, <<>>, FALSE)
    ELSE Outcome(<<>>, <<>>, FALSE)

\* _validate_source_path(source, path_prefix)
ValidateSourcePath(source, n) ==
    IF source.t # "str"
    THEN Outcome(<<MkError("error", n, "source", -1, "",
                           "Source must be a string", <<>>)>>, <<>>, FALSE)
    ELSE LET source_path == LStripChars(source.s, {".", "/"})
         IN Outcome(
              (IF ~StartsWith(source.s, DotSlash)
               THEN <<MkError("error", n, "source", -1, "",
                              "must start with './'", source.s)>>
               ELSE <<>>)
              \o (IF ~PathExists(source_path)
                  THEN <<MkError("error", n, "source", -1, "",
                                 "Source directory does not exist", source.s)>>
                  ELSE IF ~PathIsDir(source_path)
                  THEN <<MkError("error", n, "source", -1, "",
                                 "Source path is not a directory", source.s)>>
                  ELSE <<>>),
              <<>>, FALSE)

\* the source part of one iteration of _validate_plugins (lines 175-184)
SourceOutcome(plugin, n) ==
    IF plugin.source.t = "absent"
    THEN Outcome(<<MkError("error", n, "", -1, "",
                           "Missing required field 'source'", <<>>)>>, <<>>, FALSE)
    ELSE ValidateSourcePath(plugin.source, n)

\* the optional fields of one iteration of _validate_plugins (lines 187-203)
OptionalOutcome(plugin, n) ==
    Outcome(
      (IF plugin.version.t \notin {"absent", "str"}
       THEN <<MkError("error", n, "version", -1, "",
                      "Version must be a string", <<>>)>>
       ELSE <<>>)
      \o (IF plugin.description.t \notin {"absent", "str"}
          THEN <<MkError("error", n, "description", -1, "",
                         "Description must be a string", <<>>)>>
          ELSE <<>>),
      <<>>, FALSE)

\* plugin.get("source", "")
PluginSource(plugin) ==
    IF plugin.source.t = "absent" THEN Str(<<>>) ELSE plugin.source

\* one iteration of the loop of _validate_component_array (lines 275-317)
ComponentOutcome(component, n, ctype, c, plugin_source) ==
    IF component.t # "object"
    THEN Outcome(<<MkError("error", n, ctype, c, "",
                           "Component entry must be an object", <<>>)>>, <<>>, FALSE)
    ELSE IF component.path.t = "absent"
    THEN Outcome(<<MkError("error", n, ctype, c, "",
                           "Missing required field 'path'", <<>>)>>, <<>>, FALSE)
    ELSE IF component.path.t # "str"
    THEN Outcome(<<MkError("error", n, ctype, c, "path",
                           "Path must be a string", <<>>)>>, <<>>, FALSE)
    ELSE IF plugin_source = Str(<<>>)
    THEN Outcome(<<>>, <<>>, FALSE)          \* 'if plugin_source:' is false
    ELSE IF plugin_source.t # "str"
    THEN Outcome(<<>>, <<>>, TRUE)           \* a number has no lstrip: AttributeError
    ELSE IF ~PathExists(JoinPath(LStripChars(plugin_source.s, {".", "/"}),
                                 component.path.s))
    THEN Outcome(<<MkError("error", n, ctype, c, "path",
                           "Component file does not exist", component.path.s)>>,
                 <<>>, FALSE)
    ELSE Outcome(<<>>, <<>>, FALSE)

\* the loop of _validate_component_array from item c (1-based) on
RECURSIVE ComponentsFrom(_, _, _, _, _)
ComponentsFrom(items, n, ctype, c, plugin_source) ==
    IF c > Len(items) THEN Outcome(<<>>, <<>>, FALSE)
    ELSE Then(ComponentOutcome(items[c], n, ctype, c - 1, plugin_source),
              ComponentsFrom(items, n, ctype, c + 1, plugin_source))

\* 'if component_type in plugin: self._validate_component_array(...)'
ValidateComponentArray(components, n, ctype, plugin_source) ==
    IF components.t = "absent" THEN Outcome(<<>>, <<>>, FALSE)
    ELSE IF components.t # "list"
    THEN Outcome(<<MkError("error", n, ctype, -1, "",
                           "Component array must be an array", <<>>)>>, <<>>, FALSE)
    ELSE ComponentsFrom(components.items, n, ctype, 1, plugin_source)

\* one iteration of the loop of _validate_plugins, for plugins[n]
PluginOutcome(plugin, n, names) ==
    IF plugin.t # "object"
    THEN Outcome(<<MkError("error", n, "", -1, "",
                           "Plugin entry must be an object", <<>>)>>, <<>>, FALSE)
    ELSE Then(NameOutcome(plugin, n, names),
         Then(SourceOutcome(plugin, n),
         Then(OptionalOutcome(plugin, n),
         Then(ValidateComponentArray(plugin.agents, n, "agents", PluginSource(plugin)),
         Then(ValidateComponentArray(plugin.commands, n, "commands", PluginSource(plugin)),
              ValidateComponentArray(plugin.skills, n, "skills", PluginSource(plugin)))))))

-----------------------------------------------------------------------------
(* validate_marketplace.py: the inputs                                      *)

SrcP == Str(<<".", "/", "p">>)      \* "./p", an existing directory

SrcM == Str(<<".", "/", "m">>)      \* "./m", which does not exist

SrcDotP == Str(<<".", "/", ".", "p">>)      \* "./.p", which does not exist

NameA == Str(<<"a">>)

NameB == Str(<<"b">>)

\* a plugin entry with a name and a source only
Plain(name, source) == Plugin(name, source, Absent, Absent, NoList, NoList, NoList)

PluginAlphabet ==
    { Plain(NameA, SrcP),
      Plain(NameB, SrcP),
      Plain(Str(<<"A", "b">>), SrcP),            \* not kebab-case
      Plain(NameA, SrcM),
      Plain(NameB, SrcDotP),
      Plain(NameB, Str(<<"p">>)),                \* source without "./"
      Plain(NameA, Str(<<"m">>)),                \* without "./", and not there
      Plain(Absent, SrcP),
      Plain(NameA, Absent),
      NumPlugin,
      Plain(Num, SrcP),                          \* "name": 5
      Plain(NameA, Num),                         \* "source": 5
      Plugin(NameA, Num, Absent, Absent,
             List(<<Component(Str(<<"x">>))>>), NoList, NoList),
      Plugin(NameA, SrcP, Num, Num, NoList, NoList, NoList),
      Plugin(NameB, SrcP, Absent, Absent,
             List(<<Component(Str(<<"x">>)), Component(Str(<<"y">>)),
                    Component(Str(<<"d">>))>>),
             NoList, NoList),
      Plugin(NameB, Absent, Str(<<"1">>), Str(<<"d">>),
             List(<<Component(Str(<<"y">>))>>), NoList, NoList),
      Plugin(NameB, SrcP, Absent, Absent, NoList, NumList,
             List(<<NumComponent, Component(Absent), Component(Num)>>)) }

PluginRoots == { Absent, Num, Str(<<".", "/", "r">>), Str(<<"r">>) }

Manifests ==
    {NumManifest, ListManifest}
    \cup {Manifest(pl, pr) : pl \in {NoList, NumList}, pr \in PluginRoots}
    \cup {Manifest(List(ps), pr) : ps \in SeqsUpTo(PluginAlphabet, 1), pr \in PluginRoots}
    \cup {Manifest(List(ps), Absent) : ps \in SeqsUpTo(PluginAlphabet, MaxPlugins)}

\* self.data = {} of __init__
EmptyObject == Manifest(NoList, Absent)

MkInit ==
    /\ data = EmptyObject
    /\ plugin_names = {}
    /\ idx = 0

MkIdle ==
    /\ manifest = EmptyObject
    /\ MkInit

\* python validate_marketplace.py [marketplace.json]
InitMarketplace ==
    /\ tool = "marketplace"
    /\ suffix = "json"
    /\ files = <<>>
    /\ \/ /\ argv = "bad"
          /\ pathKind = "file"
          /\ fileRead = "ok"
          /\ manifest = EmptyObject
       \/ /\ argv = "ok"
          /\ pathKind = "missing"
          /\ fileRead = "missing"
          /\ manifest = EmptyObject
       \/ /\ argv = "ok"
          /\ pathKind = "file"
          /\ fileRead \in {"unreadable", "malformed"}
          /\ manifest = EmptyObject
       \/ /\ argv = "ok"
          /\ pathKind = "file"
          /\ fileRead = "ok"
          /\ manifest \in Manifests

-----------------------------------------------------------------------------
(* validate_marketplace.py: main and MarketplaceValidator.validate          *)

\* main: parse_args, then validator = MarketplaceValidator(marketplace_path)
MkMain ==
    /\ tool = "marketplace"
    /\ pc = "main"
    /\ IF argv = "bad"
       THEN Exit(2)                  \* argparse: error(), which exits with 2
       ELSE /\ pc' = "mk_load"
            /\ UNCHANGED exitCode
    /\ errors' = <<>>
    /\ warnings' = <<>>
    /\ data' = EmptyObject
    /\ UNCHANGED <<ipVars, summary, apiVars, rcVars, jvVars, envVars, success, printed, mdVars, manifest, plugin_names, idx>>

\* validate(): 'if not self._load_json(): return False'
MkLoadJson ==
    /\ pc = "mk_load"
    /\ CASE fileRead = "ok" ->
              /\ data' = manifest
              /\ pc' = "mk_structure"
              /\ UNCHANGED <<errors, success>>
         [] fileRead = "missing" ->
              /\ errors' = Append(errors, MkError("error", -1, "marketplace_path", -1,
                                                  "", "File not found", <<>>))
              /\ success' = "false"
              /\ pc' = "mk_report"
              /\ UNCHANGED data
         [] fileRead = "malformed" ->
              /\ errors' = Append(errors, MkError("error", -1, "marketplace_path", -1,
                                                  "", "Invalid JSON", <<>>))
              /\ success' = "false"
              /\ pc' = "mk_report"
              /\ UNCHANGED data
         [] OTHER ->
              \* PermissionError, IsADirectoryError, UnicodeDecodeError: not caught
              /\ pc' = "raised"
              /\ UNCHANGED <<errors, success, data>>
    /\ UNCHANGED <<ipVars, summary, apiVars, rcVars, jvVars, envVars, exitCode, warnings, printed, mdVars, manifest,
                   plugin_names, idx>>

\* validate(): self._validate_structure(), and the entry of _validate_plugins
MkValidateStructure ==
    /\ pc = "mk_structure"
    /\ LET o == ValidateStructure(data)
       IN /\ errors' = errors \o o.e
          /\ warnings' = warnings \o o.w
          /\ pc' = IF o.r THEN "raised" ELSE "mk_plugins"
    /\ plugin_names' = {}
    /\ idx' = 0
    /\ UNCHANGED <<ipVars, summary, apiVars, rcVars, jvVars, envVars, exitCode, success, printed, mdVars, manifest, data>>

\* whether the loop of _validate_plugins has an entry left
MorePlugins ==
    /\ data.t = "object"
    /\ data.plugins.t = "list"
    /\ idx < Len(data.plugins.items)

\* _validate_plugins: one iteration of the loop over the plugins
MkPluginStep ==
    /\ pc = "mk_plugins"
    /\ MorePlugins
    /\ LET o == PluginOutcome(data.plugins.items[idx + 1], idx, plugin_names)
       IN /\ errors' = errors \o o.e
          /\ warnings' = warnings \o o.w
          /\ pc' = IF o.r THEN "raised" ELSE "mk_plugins"
          /\ idx' = IF o.r THEN idx ELSE idx + 1
    /\ plugin_names' = NamesAfter(data.plugins.items[idx + 1], plugin_names)
    /\ UNCHANGED <<ipVars, summary, apiVars, rcVars, jvVars, envVars, exitCode, success, printed, mdVars, manifest, data>>

\* ValidateResult that does not look at the errors: C1 does not hold of it
ValidateResultIgnoringErrors(errs) == "true"

\* validate(): the value of 'len(self.errors) == 0'
ValidateResult(errs) == IF Len(errs) = 0 THEN "true" ELSE "false"

\* validate(): return len(self.errors) == 0
MkValidateReturn ==
    /\ pc = "mk_plugins"
    /\ ~MorePlugins
    /\ success' = ValidateResult(errors)
    /\ pc' = "mk_report"
    /\ UNCHANGED <<ipVars, summary, apiVars, rcVars, jvVars, envVars, exitCode, errors, warnings, printed, mdVars, mkVars>>

\* print_report: the line between the two rules, args the numbers formatted
\* into it
MkSummary(errs, warns) ==
    IF errs # <<>>
    THEN [line |-> "Validation FAILED: {} error(s), {} warning(s)",
          args |-> <<Len(errs), Len(warns)>>]
    ELSE IF warns # <<>>
    THEN [line |-> "Validation PASSED with {} warning(s)", args |-> <<Len(warns)>>]
    ELSE [line |-> "Validation PASSED: No errors or warnings", args |-> <<>>]

\* print_report(): the errors, then the warnings
MkPrintReport ==
    /\ pc = "mk_report"
    /\ printed' = errors \o warnings
    /\ summary' = MkSummary(errors, warnings)
    /\ pc' = "mk_exit"
    /\ UNCHANGED <<ipVars, apiVars, rcVars, jvVars, envVars, exitCode, success, errors, warnings, mdVars, mkVars>>

\* sys.exit(0 if success else 1)
MkExit ==
    /\ pc = "mk_exit"
    /\ Exit(IF success = "true" THEN 0 ELSE 1)
    /\ UNCHANGED <<ipVars, summary, apiVars, rcVars, jvVars, envVars, success, errors, warnings, printed, mdVars, mkVars>>

\* an exception nobody catches: the interpreter prints the traceback and the
\* process ends with status 1
UncaughtException ==
    /\ pc = "raised"
    /\ Exit(1)
    /\ UNCHANGED <<ipVars, summary, apiVars, rcVars, jvVars, envVars, success, errors, warnings, printed, mdVars, mkVars>>

-----------------------------------------------------------------------------
(* MarketplaceValidator used as a class: validate() called twice            *)

\* the manifests of a client that calls validate() twice
TwiceManifests ==
    {m \in Manifests : m.t = "object" /\ m.plugins.t = "list" => Len(m.plugins.items) <= 1}

\* a client holds a path and a marketplace file
InitMarketplaceTwice ==
    /\ tool = "marketplace_twice"
    /\ suffix = "json"
    /\ files = <<>>
    /\ argv = "ok"
    /\ \/ /\ pathKind = "missing"
          /\ fileRead = "missing"
          /\ manifest = EmptyObject
       \/ /\ pathKind = "file"
          /\ fileRead = "malformed"
          /\ manifest = EmptyObject
       \/ /\ pathKind = "file"
          /\ fileRead = "ok"
          /\ manifest \in TwiceManifests

\* validator = MarketplaceValidator(path); validator.validate()
TwiceNewValidator ==
    /\ tool = "marketplace_twice"
    /\ pc = "main"
    /\ pc' = "mk_load"
    /\ errors' = <<>>
    /\ warnings' = <<>>
    /\ data' = EmptyObject
    /\ UNCHANGED <<ipVars, summary, apiVars, rcVars, jvVars, envVars, exitCode, success, printed, mdVars,
                   manifest, plugin_names, idx>>

\* validator.validate() once more, on the same object: __init__ does not run
\* again, and validate() assigns neither self.errors nor self.warnings
TwiceValidateAgain ==
    /\ tool = "marketplace_twice"
    /\ pc = "mk_report"
    /\ reruns = 0
    /\ reruns' = 1
    /\ first' = Result(errors, warnings, success)
    /\ pc' = "mk_load"
    /\ UNCHANGED <<ipVars, summary, order, applied, rcVars, jvVars, envVars, exitCode, success,
                   errors, warnings, printed, mdVars, mkVars>>

-----------------------------------------------------------------------------
(* validate_java8.py                                                        *)

\* the keys of Java8Validator.PATTERNS, in the order of the dict
PATTERNS ==
    << "var_keyword", "switch_expression", "text_block",
       "pattern_matching_instanceof", "record_declaration", "sealed_class" >>

\* a line of a Java file: its characters, and the patterns re.search finds in it
JavaLine(text, hits) == [text |-> text, hits |-> hits]

\* IsCommentLine that knows '//' only: C25 does not hold of it
IsCommentLineSlashes(line) == StartsWith(Strip(line.text), <<"/", "/">>)

\* line.strip().startswith('//') or line.strip().startswith('/*')
IsCommentLine(line) ==
    \/ StartsWith(Strip(line.text), <<"/", "/">>)
    \/ StartsWith(Strip(line.text), <<"/", "*">>)

\* the violations of the inner loop (over the lines from n on) for one pattern
RECURSIVE LineViolations(_, _, _, _)
LineViolations(f, text, pattern, n) ==
    IF n > Len(text) THEN <<>>
    ELSE (IF ~IsCommentLine(text[n]) /\ pattern \in text[n].hits
          THEN <<[file |-> f, line_num |-> n, pattern |-> pattern]>>
          ELSE <<>>)
         \o LineViolations(f, text, pattern, n + 1)

\* the violations of the outer loop, over the patterns from k on
RECURSIVE FileViolations(_, _, _)
FileViolations(f, text, k) ==
    IF k > Len(PATTERNS) THEN <<>>
    ELSE LineViolations(f, text, PATTERNS[k], 1) \o FileViolations(f, text, k + 1)

JavaLineAlphabet ==
    { JavaLine(<<"x">>, {}),
      JavaLine(<<"v">>, {"var_keyword"}),
      JavaLine(<<"r">>, {"record_declaration"}),
      JavaLine(<<"v", "q">>, {"var_keyword", "text_block"}),
      JavaLine(<<" ", "/", "/", "v">>, {"var_keyword"}),
      JavaLine(<<"/", "*", "r">>, {"record_declaration"}) }

JavaDirLineAlphabet ==
    { JavaLine(<<"x">>, {}),
      JavaLine(<<"v">>, {"var_keyword"}),
      JavaLine(<<"/", "/", "r">>, {"record_declaration"}) }

JavaSingleFiles ==
    {TextFile(t) : t \in SeqsUpTo(JavaLineAlphabet, MaxJavaLines)} \cup {UnreadableFile}

JavaDirFiles ==
    {TextFile(t) : t \in SeqsUpTo(JavaDirLineAlphabet, MaxDirLines)} \cup {UnreadableFile}

JvInit == violations = <<>>

\* python validate_java8.py <path-to-java-file-or-directory>
InitJava8 ==
    /\ tool = "java8"
    /\ fileRead = "ok"
    /\ \/ /\ argv = "bad"
          /\ pathKind = "missing"
          /\ suffix = "java"
          /\ files = <<>>
       \/ /\ argv = "ok"
          /\ pathKind \in {"missing", "other"}
          /\ suffix \in {"java", "txt"}
          /\ files = <<>>
       \/ /\ argv = "ok"
          /\ pathKind = "file"
          /\ suffix = "txt"
          /\ files = <<>>
       \/ /\ argv = "ok"
          /\ pathKind = "file"
          /\ suffix = "java"
          /\ files \in {<<f>> : f \in JavaSingleFiles}
       \/ /\ argv = "ok"
          /\ pathKind = "dir"
          /\ suffix = "java"
          /\ files \in SeqsUpTo(JavaDirFiles, MaxFiles)

\* main, up to validator = Java8Validator() and the dispatch on the kind of path
JvMain ==
    /\ tool = "java8"
    /\ pc = "main"
    /\ IF \/ argv = "bad"
          \/ pathKind \in {"missing", "other"}
          \/ pathKind = "file" /\ suffix # "java"
       THEN /\ Exit(2)
            /\ UNCHANGED fileIdx
       ELSE /\ fileIdx' = 1
            /\ pc' = IF files = <<>> THEN "jv_report" ELSE "jv_file"
            /\ UNCHANGED exitCode
    /\ violations' = <<>>
    /\ UNCHANGED <<ipVars, summary, apiVars, rcVars, mkVars, envVars, success, errors, warnings, printed, files, lines,
                   i, prev_level, heading_levels, in_code_block, code_block_start,
                   returned, results>>

\* validate_file(file_path), for the named file or the next file of rglob
JvValidateFile ==
    /\ pc = "jv_file"
    /\ violations' = IF files[fileIdx].read = "ok"
                     THEN violations \o FileViolations(fileIdx, files[fileIdx].text, 1)
                     ELSE violations      \* except Exception: print to stderr
    /\ fileIdx' = fileIdx + 1
    /\ pc' = IF fileIdx < Len(files) THEN "jv_file" ELSE "jv_report"
    /\ UNCHANGED <<ipVars, summary, apiVars, rcVars, mkVars, envVars, exitCode, success, errors, warnings, printed, files,
                   lines, i, prev_level, heading_levels, in_code_block,
                   code_block_start, returned, results>>

\* sys.exit(validator.report())
JvReport ==
    /\ pc = "jv_report"
    /\ printed' = violations
    /\ Exit(IF violations = <<>> THEN 0 ELSE 1)
    /\ UNCHANGED <<ipVars, summary, apiVars, rcVars, mkVars, envVars, success, errors, warnings, mdVars, jvVars>>

-----------------------------------------------------------------------------
(* validate_recipe.py                                                       *)

RequiredMethods == <<"getDisplayName()", "getDescription()", "getVisitor()">>

\* the checks of check_java8_compatibility_patterns, in their order
Java8Checks == <<"var", "text_block", "switch_expression", "instanceof", "record">>

\* the required fields of validate_yaml_recipe, in the order of its checks
YamlFields == <<"type", "name", "displayName", "description", "recipeList">>

\* the conditions that only print a warning, in the order of the code
Notes ==
    << "@Value", "@EqualsAndHashCode", "getVisitor NEW", "Display name period",
       "@Option example", "placeholder package", "VerbNoun",
       "fully qualified", "placeholder recipe name" >>

Range(seq) == {seq[k] : k \in DOMAIN seq}

\* the elements of seq that P selects, in the order of seq
RECURSIVE Select(_, _)
Select(seq, keep) ==
    IF seq = <<>> THEN <<>>
    ELSE (IF Head(seq) \in keep THEN <<Head(seq)>> ELSE <<>>) \o Select(Tail(seq), keep)

\* what the regular expressions and substring tests find in a file's content:
\* extends     re.search(r'class\s+\w+\s+extends\s+Recipe', content)
\* verbNoun    re.match(r'^[A-Z][a-z]+[A-Z]', class_name)
\* fileMatches file_path.name == class_name + ".java"
\* methods     the required methods named in the content
\* hits        the Java 8 checks that find their pattern
\* notes       the other conditions that print a warning
\* yaml        the required YAML fields the content has
Content(extends, verbNoun, fileMatches, methods, hits, notes, yaml) ==
    [extends |-> extends, verbNoun |-> verbNoun, fileMatches |-> fileMatches,
     methods |-> methods, hits |-> hits, notes |-> notes, yaml |-> yaml]

NoContent == Content(FALSE, TRUE, TRUE, {}, {}, {}, {})

\* check_java_file_structure(content, file_path): the errors it returns
check_java_file_structure(c) ==
    (IF ~c.extends THEN <<"Recipe class must extend Recipe">> ELSE <<>>)
    \o Select(RequiredMethods, Range(RequiredMethods) \ c.methods)

\* check_naming_conventions(content, file_path): the errors it returns
check_naming_conventions(c) ==
    IF c.extends /\ ~c.fileMatches
    THEN <<"File name does not match class name">>
    ELSE <<>>

\* what the two functions print with print_warning
JavaNotes(c) ==
    Select(Notes, c.notes \cup (IF c.extends /\ ~c.verbNoun THEN {"VerbNoun"} ELSE {}))

\* check_java8_compatibility_patterns(content)
check_java8_compatibility_patterns(c) == Select(Java8Checks, c.hits)

\* validate_yaml_recipe(content, file_path): the errors it returns
validate_yaml_recipe(c) == Select(YamlFields, Range(YamlFields) \ c.yaml)

\* compile_with_javac that takes a timeout for a success: C16 does not hold of it
compile_with_javac_TimeoutPasses(outcome) ==
    IF outcome \in {"ok", "timeout"}
    THEN [success |-> TRUE, message |-> ""]
    ELSE [success |-> FALSE, message |-> "stderr"]

\* compile_with_javac(file_path, java_version): (success, message)
compile_with_javac(outcome) ==
    CASE outcome = "ok" -> [success |-> TRUE, message |-> ""]
      [] outcome = "failed" -> [success |-> FALSE, message |-> "stderr"]
      \* result.stderr names the file, and so any text the path holds
      [] outcome = "failed_named" ->
             [success |-> FALSE, message |-> "stderr: javac not found"]
      [] outcome = "notfound" -> [success |-> FALSE, message |-> "javac not found in PATH"]
      [] outcome = "timeout" -> [success |-> FALSE, message |-> "Compilation timed out"]
      [] OTHER -> [success |-> FALSE, message |-> "str(e)"]

\* '"javac not found" in compile_error'
MentionsJavacNotFound(message) ==
    message \in {"javac not found in PATH", "stderr: javac not found"}

Printed(level, texts) == [k \in 1..Len(texts) |-> [level |-> level, text |-> texts[k]]]

JavaContents ==
    {Content(e, v, f, m, h, n, {}) :
        e \in BOOLEAN, v \in BOOLEAN, f \in BOOLEAN,
        m \in SUBSET Range(RequiredMethods),
        h \in {{}, {"var"}, {"var", "record"}, Range(Java8Checks)},
        n \in {{}, {"@Value"}}}

YamlContents ==
    {Content(FALSE, TRUE, TRUE, {}, {}, n, y) :
        n \in {{}, {"fully qualified"}}, y \in SUBSET Range(YamlFields)}

JavacOutcomes == {"ok", "failed", "failed_named", "notfound", "timeout", "exception"}

RcIdle ==
    /\ content = NoContent
    /\ skip_compile = TRUE
    /\ javac = "ok"

\* python validate_recipe.py <path-to-recipe> [--java-version N] [--no-compile]
InitRecipe ==
    /\ tool = "recipe"
    /\ files = <<>>
    /\ \/ /\ argv = "bad"
          /\ pathKind = "file"
          /\ fileRead = "ok"
          /\ suffix = "java"
          /\ RcIdle
       \/ /\ argv = "ok"
          /\ pathKind = "missing"
          /\ fileRead = "missing"
          /\ suffix \in {"java", "yml"}
          /\ RcIdle
       \/ /\ argv = "ok"
          /\ pathKind \in {"file", "dir"}
          /\ fileRead = "unreadable"
          /\ suffix \in {"java", "yml"}
          /\ RcIdle
       \/ /\ argv = "ok"
          /\ pathKind = "file"
          /\ fileRead = "ok"
          /\ suffix = "txt"
          /\ RcIdle
       \/ /\ argv = "ok"
          /\ pathKind = "file"
          /\ fileRead = "ok"
          /\ suffix \in {"yml", "yaml"}
          /\ content \in YamlContents
          /\ skip_compile \in BOOLEAN
          /\ javac = "ok"
       \/ /\ argv = "ok"
          /\ pathKind = "file"
          /\ fileRead = "ok"
          /\ suffix = "java"
          /\ content \in JavaContents
          /\ \/ skip_compile = TRUE /\ javac = "ok"
             \/ skip_compile = FALSE /\ javac \in JavacOutcomes

\* main: parser.parse_args()
RcMain ==
    /\ tool = "recipe"
    /\ pc = "main"
    /\ IF argv = "bad"
       THEN Exit(2)                  \* argparse: error(), which exits with 2
       ELSE /\ pc' = "rc_open"
            /\ UNCHANGED exitCode
    /\ UNCHANGED <<ipVars, summary, apiVars, jvVars, mkVars, envVars, success, errors, warnings, printed, mdVars,
                   rcVars>>

\* validate_recipe: the file is looked up and read, and the suffix decides
RcOpen ==
    /\ pc = "rc_open"
    /\ IF pathKind = "missing"
       THEN /\ printed' = Append(printed, [level |-> "error", text |-> "File not found"])
            /\ success' = "false"
            /\ pc' = "rc_exit"
       ELSE IF fileRead # "ok"
       THEN /\ printed' = Append(printed, [level |-> "error", text |-> "Error reading file"])
            /\ success' = "false"
            /\ pc' = "rc_exit"
       ELSE IF suffix = "java"
       THEN /\ pc' = "rc_java"
            /\ UNCHANGED <<printed, success>>
       ELSE IF suffix \in {"yml", "yaml"}
       THEN /\ pc' = "rc_yaml"
            /\ UNCHANGED <<printed, success>>
       ELSE /\ printed' = Append(printed, [level |-> "error", text |-> "Unsupported file type"])
            /\ success' = "false"
            /\ pc' = "rc_exit"
    /\ errors' = <<>>
    /\ warnings' = <<>>
    /\ UNCHANGED <<ipVars, summary, apiVars, jvVars, mkVars, envVars, exitCode, mdVars, rcVars>>

\* validate_recipe: the three checks of a .java file
RcCheckJava ==
    /\ pc = "rc_java"
    /\ errors' = errors \o check_java_file_structure(content)
                        \o check_naming_conventions(content)
    /\ warnings' = warnings \o check_java8_compatibility_patterns(content)
    /\ printed' = printed \o Printed("warning", JavaNotes(content))
    /\ pc' = IF skip_compile THEN "rc_results" ELSE "rc_compile"
    /\ UNCHANGED <<ipVars, summary, apiVars, jvVars, mkVars, envVars, exitCode, success, mdVars, rcVars>>

\* validate_recipe: 'if not skip_compile:' the compilation
RcCompile ==
    /\ pc = "rc_compile"
    /\ LET r == compile_with_javac(javac)
       IN IF r.success
          THEN /\ printed' = Append(printed, [level |-> "success",
                                              text |-> "Compilation successful"])
               /\ UNCHANGED errors
          ELSE IF MentionsJavacNotFound(r.message)
          THEN /\ printed' = Append(printed, [level |-> "warning",
                                              text |-> "javac not found"])
               /\ UNCHANGED errors
          ELSE /\ errors' = Append(errors, "Compilation failed")
               /\ UNCHANGED printed
    /\ pc' = "rc_results"
    /\ UNCHANGED <<ipVars, summary, apiVars, jvVars, mkVars, envVars, exitCode, success, warnings, mdVars, rcVars>>

\* validate_recipe: the check of a .yml or .yaml file
RcValidateYaml ==
    /\ pc = "rc_yaml"
    /\ errors' = errors \o validate_yaml_recipe(content)
    /\ printed' = printed \o Printed("warning", Select(Notes, content.notes))
    /\ pc' = "rc_results"
    /\ UNCHANGED <<ipVars, summary, apiVars, jvVars, mkVars, envVars, exitCode, success, warnings, mdVars, rcVars>>

\* validate_recipe: the results are printed and the verdict returned
RcResults ==
    /\ pc = "rc_results"
    /\ printed' = printed \o Printed("error", errors) \o Printed("warning", warnings)
    /\ success' = IF errors = <<>> THEN "true" ELSE "false"
    /\ pc' = "rc_exit"
    /\ UNCHANGED <<ipVars, summary, apiVars, jvVars, mkVars, envVars, exitCode, errors, warnings, mdVars, rcVars>>

\* sys.exit(0 if success else 1)
RcExit ==
    /\ pc = "rc_exit"
    /\ Exit(IF success = "true" THEN 0 ELSE 1)
    /\ UNCHANGED <<ipVars, summary, apiVars, jvVars, mkVars, envVars, success, errors, warnings, printed, mdVars,
                   rcVars>>

-----------------------------------------------------------------------------
(* init_plugin.py                                                           *)

\* validate_plugin_name that takes every name: C27 does not hold of it
validate_plugin_name_Any(name) == TRUE

\* validate_plugin_name(name)
validate_plugin_name(name) ==
    /\ name # <<>>
    /\ \A k \in DOMAIN name : name[k] \in LowerCase \cup Digits \cup {"-"}
    /\ ~StartsWith(name, <<"-">>)
    /\ ~EndsWith(name, <<"-">>)
    /\ \A k \in 1..(Len(name) - 1) : ~(name[k] = "-" /\ name[k + 1] = "-")

\* the values of --name
PluginNames ==
    { <<>>, <<"a">>, <<"a", "-", "b">>, <<"a", "1">>, <<"A">>, <<"-", "a">>,
      <<"a", "-">>, <<"a", "-", "-", "b">>, <<"a", "_", "b">> }

\* an entry of the file system: base is "cwd" or the value of --output, name
\* the directory below it (<<>> for base itself), rel the path below that
\* ("" for the directory itself), and content what a file holds
FsEntry(base, name, rel, kind, holds) ==
    [base |-> base, name |-> name, rel |-> rel, kind |-> kind, content |-> holds]

Dir(base, name, rel) == FsEntry(base, name, rel, "dir", "")

\* Path.exists()
Exists(disk, base, name, rel) ==
    \E e \in disk : e.base = base /\ e.name = name /\ e.rel = rel

\* open(path, "w") and write, or Path.touch(): the file is made or replaced
WriteFile(disk, base, name, rel, holds) ==
    {e \in disk : ~(e.base = base /\ e.name = name /\ e.rel = rel)}
    \cup {FsEntry(base, name, rel, "file", holds)}

\* the file systems a run starts on: --output is there or not, and below it
\* nothing, a directory <name> with a README.md of its own, or a file <name>
Disks(base, name) ==
    { {}, {Dir(base, <<>>, "")},
      {Dir(base, <<>>, ""), Dir(base, name, ""),
       FsEntry(base, name, "README.md", "file", "old")},
      {Dir(base, <<>>, ""), FsEntry(base, name, "", "file", "old")} }

\* no run of init_plugin.py
IpIdle ==
    /\ plugin_name = <<>>
    /\ output_dir = "cwd"
    /\ writable = TRUE
    /\ fs0 = {}

\* python init_plugin.py [--name NAME] [--description DESC] [--author AUTHOR]
\* [--output DIR]
InitPlugin ==
    /\ tool = "init_plugin"
    /\ pathKind = "dir"
    /\ suffix = ""
    /\ fileRead = "ok"
    /\ files = <<>>
    /\ \/ /\ argv = "bad"                \* no --name
          /\ IpIdle
       \/ /\ argv = "ok"
          /\ plugin_name \in PluginNames
          /\ output_dir \in {"cwd", "out"}
          /\ writable \in BOOLEAN
          /\ fs0 \in {d \in Disks(output_dir, plugin_name) :
                         output_dir = "cwd" => Dir("cwd", <<>>, "") \in d}

\* main: parse_args and validate_plugin_name
IpMain ==
    /\ tool = "init_plugin"
    /\ pc = "main"
    /\ IF argv = "bad"
       THEN Exit(2)                  \* argparse: --name is required
       ELSE IF ~validate_plugin_name(plugin_name)
       THEN Exit(1)
       ELSE pc' = "ip_exists" /\ UNCHANGED exitCode
    /\ UNCHANGED <<plugin_name, output_dir, writable, fs0, fs, summary, apiVars, rcVars, jvVars, mkVars, envVars, success, errors,
                   warnings, printed, mdVars>>

\* create_directory_structure: 'if plugin_dir.exists():'
IpCheckExists ==
    /\ pc = "ip_exists"
    /\ IF Exists(fs, output_dir, plugin_name, "")
       THEN Exit(1)
       ELSE pc' = "ip_mkdir" /\ UNCHANGED exitCode
    /\ UNCHANGED <<plugin_name, output_dir, writable, fs0, fs, summary, apiVars, rcVars, jvVars, mkVars, envVars, success, errors,
                   warnings, printed, mdVars>>

\* create_directory_structure: plugin_dir.mkdir(parents=True) and the four
\* directories below it
IpMkdirs ==
    /\ pc = "ip_mkdir"
    /\ IF ~writable
       THEN pc' = "raised" /\ UNCHANGED fs         \* PermissionError
       ELSE /\ fs' = fs \cup {Dir(output_dir, <<>>, ""),
                             Dir(output_dir, plugin_name, ""),
                             Dir(output_dir, plugin_name, ".claude-plugin"),
                             Dir(output_dir, plugin_name, "agents"),
                             Dir(output_dir, plugin_name, "commands"),
                             Dir(output_dir, plugin_name, "skills")}
            /\ pc' = "ip_files"
    /\ UNCHANGED <<plugin_name, output_dir, writable, fs0, summary, apiVars, rcVars, jvVars, mkVars, envVars, exitCode, success,
                   errors, warnings, printed, mdVars>>

\* create_directory_structure: plugin.json, README.md and SKILLS.md
IpWriteFiles ==
    /\ pc = "ip_files"
    /\ fs' = WriteFile(WriteFile(WriteFile(fs,
                 output_dir, plugin_name, ".claude-plugin/plugin.json", "plugin_json"),
                 output_dir, plugin_name, "README.md", "readme_content"),
                 output_dir, plugin_name, "SKILLS.md", "skills_content")
    /\ pc' = "ip_touch"
    /\ UNCHANGED <<plugin_name, output_dir, writable, fs0, summary, apiVars, rcVars, jvVars, mkVars, envVars, exitCode, success,
                   errors, warnings, printed, mdVars>>

\* create_directory_structure: the three .gitkeep files; it returns, and so
\* does main
IpTouch ==
    /\ pc = "ip_touch"
    /\ fs' = WriteFile(WriteFile(WriteFile(fs,
                 output_dir, plugin_name, "agents/.gitkeep", ""),
                 output_dir, plugin_name, "commands/.gitkeep", ""),
                 output_dir, plugin_name, "skills/.gitkeep", "")
    /\ Exit(0)
    /\ UNCHANGED <<plugin_name, output_dir, writable, fs0, summary, apiVars, rcVars, jvVars, mkVars, envVars, success, errors,
                   warnings, printed, mdVars>>

-----------------------------------------------------------------------------
(* The rule checks of validate() as functions, run in any order             *)

\* the calls of MarkdownValidator.validate and of MarketplaceValidator.validate,
\* in the order of the source
MdRules == <<"heading", "code", "links", "basic">>

MkRules == <<"structure", "plugins">>

Orders(seq) ==
    {p \in [DOMAIN seq -> Range(seq)] : Range(p) = Range(seq)}

\* the loop of _check_heading_hierarchy from line n on: what it appends
RECURSIVE HeadingScan(_, _, _)
HeadingScan(ls, n, prev) ==
    IF n > Len(ls) THEN <<>>
    ELSE IF IsHeading(ls[n])
    THEN HeadingErrors(n, ls[n], prev) \o HeadingScan(ls, n + 1, HeadingLevel(ls[n]))
    ELSE HeadingScan(ls, n + 1, prev)

\* the loop of _check_code_blocks from line n on, and the check behind it
RECURSIVE CodeBlockScan(_, _, _, _)
CodeBlockScan(ls, n, inside, start) ==
    IF n > Len(ls) THEN UnclosedErrors(inside, start)
    ELSE IF ~IsFence(ls[n]) THEN CodeBlockScan(ls, n + 1, inside, start)
    ELSE IF inside THEN CodeBlockScan(ls, n + 1, FALSE, start)
    ELSE CodeBlockLangErrors(n, ls[n]) \o CodeBlockScan(ls, n + 1, TRUE, n)

\* the four checks: self.errors behind the call, given self.errors before it
check_heading_hierarchy(errs, ls) == errs \o HeadingScan(ls, 1, 0)

check_code_blocks(errs, ls) == errs \o CodeBlockScan(ls, 1, FALSE, 0)

\* _check_links that binds self.errors to a new list of its own findings:
\* C20 does not hold of it
check_links_Rebinding(errs, ls) == AllLinkErrors(ls, 1)

check_links(errs, ls) == errs \o AllLinkErrors(ls, 1)

\* _check_basic_structure that is silent when self.errors holds a finding:
\* C17 does not hold of it
check_basic_structure_IfClean(errs, ls) ==
    IF errs = <<>> THEN BasicStructureErrors(ls) ELSE errs

check_basic_structure(errs, ls) == errs \o BasicStructureErrors(ls)

ApplyMdRule(rule, errs, ls) ==
    CASE rule = "heading" -> check_heading_hierarchy(errs, ls)
      [] rule = "code" -> check_code_blocks(errs, ls)
      [] rule = "links" -> check_links(errs, ls)
      [] OTHER -> check_basic_structure(errs, ls)

RECURSIVE RunMdRules(_, _, _)
RunMdRules(rules, errs, ls) ==
    IF rules = <<>> THEN errs
    ELSE RunMdRules(Tail(rules), ApplyMdRule(Head(rules), errs, ls), ls)

\* the loop of _validate_plugins from entry k (1-based) on
RECURSIVE PluginsFrom(_, _, _)
PluginsFrom(items, k, names) ==
    IF k > Len(items) THEN Outcome(<<>>, <<>>, FALSE)
    ELSE Then(PluginOutcome(items[k], k - 1, names),
              PluginsFrom(items, k + 1, NamesAfter(items[k], names)))

\* _validate_plugins
ValidatePlugins(d) ==
    IF d.t = "int"
    THEN Outcome(<<>>, <<>>, TRUE)      \* '"plugins" not in 5' raises TypeError
    ELSE IF d.t = "list" \/ d.plugins.t # "list"
    THEN Outcome(<<>>, <<>>, FALSE)
    ELSE PluginsFrom(d.plugins.items, 1, {})

\* one of the two calls of validate() on a validator that holds v
ApplyMkRule(rule, v, d) ==
    Then(v, IF rule = "structure" THEN ValidateStructure(d) ELSE ValidatePlugins(d))

RECURSIVE RunMkRules(_, _, _)
RunMkRules(rules, v, d) ==
    IF rules = <<>> THEN v
    ELSE RunMkRules(Tail(rules), ApplyMkRule(Head(rules), v, d), d)

\* a validator whose checks are called in the order 'order'
InitMarkdownRules ==
    /\ tool = "markdown_rules"
    /\ argv = "ok"
    /\ pathKind = "file"
    /\ suffix = "md"
    /\ fileRead = "ok"
    /\ files \in {<<TextFile(t)>> : t \in SeqsUpTo(MdLineAlphabet, MaxRuleLines)}
    /\ manifest = EmptyObject
    /\ order \in Orders(MdRules)

InitMarketplaceRules ==
    /\ tool = "marketplace_rules"
    /\ argv = "ok"
    /\ pathKind = "file"
    /\ suffix = "json"
    /\ fileRead = "ok"
    /\ files = <<>>
    /\ manifest \in TwiceManifests
    /\ order \in Orders(MkRules)

\* the document is loaded: validate() up to its first check
RulesLoad ==
    /\ tool \in {"markdown_rules", "marketplace_rules"}
    /\ pc = "main"
    /\ IF tool = "markdown_rules"
       THEN lines' = files[1].text /\ UNCHANGED data
       ELSE data' = manifest /\ UNCHANGED lines
    /\ pc' = "rules"
    /\ UNCHANGED <<ipVars, summary, apiVars, rcVars, jvVars, envVars, exitCode, success, errors, warnings,
                   printed, files, fileIdx, i, prev_level, heading_levels, in_code_block,
                   code_block_start, returned, results, manifest, plugin_names, idx>>

\* the next check of the order is called
MdRuleApply ==
    /\ tool = "markdown_rules"
    /\ pc = "rules"
    /\ applied < Len(order)
    /\ errors' = ApplyMdRule(order[applied + 1], errors, lines)
    /\ applied' = applied + 1
    /\ UNCHANGED <<ipVars, summary, reruns, first, order, rcVars, jvVars, mkVars, envVars, pc, exitCode,
                   success, warnings, printed, mdVars>>

MkRuleApply ==
    /\ tool = "marketplace_rules"
    /\ pc = "rules"
    /\ applied < Len(order)
    /\ LET o == ApplyMkRule(order[applied + 1], Outcome(errors, warnings, FALSE), data)
       IN /\ errors' = o.e
          /\ warnings' = o.w
          /\ pc' = IF o.r THEN "raised" ELSE "rules"
    /\ applied' = applied + 1
    /\ UNCHANGED <<ipVars, summary, reruns, first, order, rcVars, jvVars, mkVars, envVars, exitCode,
                   success, printed, mdVars>>

\* validate() returns: sorted(self.errors, ...), and len(self.errors) == 0
RulesReturn ==
    /\ tool \in {"markdown_rules", "marketplace_rules"}
    /\ pc = "rules"
    /\ applied = Len(order)
    /\ IF tool = "markdown_rules"
       THEN returned' = SortedByLine(errors) /\ UNCHANGED success
       ELSE success' = ValidateResult(errors) /\ UNCHANGED returned
    /\ pc' = "rules_done"
    /\ UNCHANGED <<ipVars, summary, apiVars, rcVars, jvVars, mkVars, envVars, exitCode, errors, warnings,
                   printed, files, fileIdx, lines, i, prev_level, heading_levels,
                   in_code_block, code_block_start, results>>

-----------------------------------------------------------------------------
(* The specification                                                        *)

Init ==
    /\ RunInit
    /\ MdInit
    /\ JvInit
    /\ \/ InitMarkdown /\ MkIdle /\ RcIdle /\ IpIdle /\ order = MdRules
       \/ InitMarketplace /\ MkInit /\ RcIdle /\ IpIdle /\ order = MkRules
       \/ InitMarketplaceTwice /\ MkInit /\ RcIdle /\ IpIdle /\ order = MkRules
       \/ InitJava8 /\ MkIdle /\ RcIdle /\ IpIdle /\ order = <<>>
       \/ InitRecipe /\ MkIdle /\ IpIdle /\ order = <<>>
       \/ InitMarkdownRules /\ MkInit /\ RcIdle /\ IpIdle
       \/ InitMarketplaceRules /\ MkInit /\ RcIdle /\ IpIdle
       \/ InitPlugin /\ MkIdle /\ RcIdle /\ order = <<>>
    /\ fs = fs0

Next ==
    \/ MdMain
    \/ MdNewValidator
    \/ MdValidateOpen
    \/ MdHeadingStep
    \/ MdHeadingDone
    \/ MdCodeBlockStep
    \/ MdCodeBlocksEnd
    \/ MdCheckLinks
    \/ MdCheckBasicStructure
    \/ MdValidateReturn
    \/ MdCollect
    \/ MdPrintResults
    \/ MdExit
    \/ MkMain
    \/ MkLoadJson
    \/ MkValidateStructure
    \/ MkPluginStep
    \/ MkValidateReturn
    \/ MkPrintReport
    \/ MkExit
    \/ UncaughtException
    \/ TwiceNewValidator
    \/ TwiceValidateAgain
    \/ RulesLoad
    \/ MdRuleApply
    \/ MkRuleApply
    \/ RulesReturn
    \/ JvMain
    \/ JvValidateFile
    \/ JvReport
    \/ RcMain
    \/ RcOpen
    \/ RcCheckJava
    \/ RcCompile
    \/ RcValidateYaml
    \/ RcResults
    \/ RcExit
    \/ IpMain
    \/ IpCheckExists
    \/ IpMkdirs
    \/ IpWriteFiles
    \/ IpTouch

Spec == Init /\ [][Next]_vars

-----------------------------------------------------------------------------
(* The claims                                                               *)

\* the number of places of seq that hold e
Occurrences(seq, e) == Cardinality({k \in DOMAIN seq : seq[k] = e})

Largest(S) == CHOOSE k \in S : \A j \in S : j <= k

\* the process has ended after a usage or environment failure: a malformed
\* command line, a path that does not exist or is of the wrong kind
UsageFailure ==
    \/ argv = "bad"
    \/ pathKind = "missing"
    \/ tool \in {"markdown", "java8"} /\ pathKind = "other"
    \/ tool = "markdown" /\ pathKind = "file" /\ suffix # "md"
    \/ tool = "java8" /\ pathKind = "file" /\ suffix # "java"

\* validate() of the marketplace validator, or validate_recipe, has returned
Returned == success # "none"

\* C1: a run that has collected at least one Error diagnostic does not pass
\* and the process ends with a non-zero status, whatever the warnings:
\* for the marketplace validator and validate_recipe the value returned is
\* False once self.errors / errors is not empty, and the status is not 0; for
\* the markdown validator a non-empty list of findings gives status 1.
C1_ErrorsFail ==
    /\ tool \in {"marketplace", "recipe"} /\ errors # <<>> =>
          /\ success # "true"
          /\ Returned => success = "false"
          /\ pc = "exited" => exitCode # 0
    /\ tool = "markdown" /\ pc = "exited" /\ (returned # <<>> \/ results # <<>>) =>
          exitCode # 0

C1_Witness ==
    /\ tool = "marketplace"
    /\ pc = "exited"
    /\ Len(errors) >= 1
    /\ Len(warnings) >= 1
    /\ success = "false"
    /\ exitCode = 1

\* C2: a document on which no rule produces a diagnostic passes and the
\* process exits with 0 (stated for the marketplace validator on a manifest
\* that was loaded).
C2_CleanPasses ==
    tool = "marketplace" /\ argv = "ok" /\ fileRead = "ok" /\ pc = "exited"
        /\ errors = <<>> /\ warnings = <<>>
    => success = "true" /\ exitCode = 0

\* C3: a document whose only findings are style findings (here: the title-case
\* heuristic of the markdown validator) passes and the process exits with 0.
C3_StyleNeverFails ==
    /\ tool = "markdown"
    /\ pc = "exited"
    /\ pathKind = "file"
    /\ returned # <<>>
    /\ \A k \in DOMAIN returned : returned[k].error_type = "TITLE_CASE"
    => exitCode = 0

\* C4: every entry point exits with 0 on pass, 1 when an Error diagnostic
\* exists and 2 on a usage or environment failure, and never with 1 on a
\* usage failure or 2 on a rule violation.
C4_ExitCodes ==
    pc = "exited" =>
        /\ exitCode \in {0, 1, 2}
        /\ UsageFailure <=> exitCode = 2

\* C5: when the document cannot be loaded (not found, unreadable, malformed)
\* the process is not aborted: the run ends with exactly one Error diagnostic,
\* no rule has run and the run has not passed.
C5_LoadErrorIsOneDiagnostic ==
    tool = "marketplace" /\ argv = "ok" /\ fileRead # "ok" =>
        /\ pc # "raised"
        /\ pc = "exited" => Len(errors) = 1 /\ success = "false"

\* C6: no failure of a rule on a loaded document propagates out of validate().
C6_RuleFailureIsolated ==
    ~(tool = "marketplace" /\ fileRead = "ok" /\ pc = "raised")

\* the entries of the plugin list
Entries == data.plugins.items

HasName(p) == p.t = "object" /\ p.name.t # "absent"

\* an earlier entry of the list carries the name of entry k
EarlierSameName(k) ==
    \E j \in 1..(k - 1) : HasName(Entries[j]) /\ Entries[j].name = Entries[k].name

\* the number of entries whose name check has run: the loop of
\* _validate_plugins has gone through idx entries, and one more when it was
\* left by an exception
Scanned ==
    IF MorePlugins /\ (pc = "raised" \/ (pc = "exited" /\ ~Returned))
    THEN idx + 1 ELSE idx

DuplicateErrors == {k \in DOMAIN errors : errors[k].message = "Duplicate plugin name"}

\* C7, for the entries the loop has gone through: the uniqueness rule reports
\* 'Duplicate plugin name' at entry i (path plugins[i].name) exactly when an
\* earlier entry j < i has the same name, and once per such entry: the errors
\* hold one duplicate error for it if an earlier entry has its name and none
\* otherwise, and there is no other duplicate error.
C7_DuplicateNames ==
    tool = "marketplace" /\ data.t = "object" /\ data.plugins.t = "list" =>
        /\ \A k \in DOMAIN Entries :
              HasName(Entries[k]) =>
                  Occurrences(errors, MkError("error", k - 1, "name", -1, "",
                                              "Duplicate plugin name",
                                              Entries[k].name.s))
                    = IF k <= Scanned /\ EarlierSameName(k) THEN 1 ELSE 0
        /\ \A e \in DuplicateErrors :
              /\ errors[e].idx + 1 \in 1..Scanned
              /\ HasName(Entries[errors[e].idx + 1])
              /\ errors[e].arg = Entries[errors[e].idx + 1].name.s
              /\ errors[e].field = "name"
              /\ errors[e].level = "error"

\* the names a, b, a: one duplicate error, at the second a
C7_Witness ==
    /\ tool = "marketplace"
    /\ pc = "exited"
    /\ Returned
    /\ data.t = "object" /\ data.plugins.t = "list"
    /\ Len(Entries) = 3
    /\ \A k \in 1..3 : HasName(Entries[k])
    /\ Entries[1].name = NameA /\ Entries[2].name = NameB /\ Entries[3].name = NameA
    /\ Cardinality(DuplicateErrors) = 1
    /\ \E e \in DuplicateErrors : errors[e].idx = 2

\* the level of the last heading above line n, 0 when there is none
LastHeadingBefore(n) ==
    LET hs == {k \in 1..(n - 1) : IsHeading(lines[k])}
    IN IF hs = {} THEN 0 ELSE HeadingLevel(lines[Largest(hs)])

HeadingScanned == IF pc = "md_heading" THEN i - 1 ELSE Len(lines)

SkipErrors == {k \in DOMAIN errors : errors[k].error_type = "HEADING_SKIP"}

\* C8: HEADING_SKIP is reported for a heading exactly when its level is more
\* than one above the level of the previous heading (0 before the first
\* heading), once, at the heading's 1-based line number; a heading at most one
\* level deeper, or shallower, gives none.
C8_HeadingSkip ==
    tool = "markdown" =>
        /\ pc = "md_heading" /\ i <= Len(lines) + 1 =>
              prev_level = LastHeadingBefore(i)
        /\ \A n \in DOMAIN lines :
              Occurrences(errors, MdError(n, "HEADING_SKIP"))
                = IF /\ n <= HeadingScanned
                     /\ IsHeading(lines[n])
                     /\ HeadingLevel(lines[n]) > LastHeadingBefore(n) + 1
                  THEN 1 ELSE 0
        /\ \A e \in SkipErrors : errors[e].line_num \in DOMAIN lines

\* '# t' followed by '### t': one HEADING_SKIP, at line 2
C8_Witness ==
    /\ tool = "markdown"
    /\ pc = "md_return"
    /\ Len(lines) >= 2
    /\ IsHeading(lines[1]) /\ HeadingLevel(lines[1]) = 1
    /\ IsHeading(lines[2]) /\ HeadingLevel(lines[2]) = 3
    /\ Cardinality(SkipErrors) = 1
    /\ \E e \in SkipErrors : errors[e].line_num = 2

\* the fence lines among the first n lines
FenceLines(n) == {k \in 1..n : IsFence(lines[k])}

Odd(n) == n % 2 = 1

UnclosedAt == {k \in DOMAIN errors : errors[k].error_type = "CODE_BLOCK_UNCLOSED"}

\* C9: every fence line toggles between outside-block and inside-block;
\* CODE_BLOCK_UNCLOSED is reported at most once per document, exactly when the
\* scan ends inside a block (the number of fence lines is odd), and at the
\* line of the opening fence that was never closed.
C9_UnclosedBlock ==
    tool = "markdown" =>
        /\ pc = "md_code" =>
              /\ in_code_block = Odd(Cardinality(FenceLines(i - 1)))
              /\ in_code_block => code_block_start = Largest(FenceLines(i - 1))
        /\ pc \in {"md_validate", "md_heading", "md_code"} => UnclosedAt = {}
        /\ pc \notin {"md_validate", "md_heading", "md_code"} =>
              IF Odd(Cardinality(FenceLines(Len(lines))))
              THEN /\ Cardinality(UnclosedAt) = 1
                   /\ \A e \in UnclosedAt :
                         errors[e].line_num = Largest(FenceLines(Len(lines)))
              ELSE UnclosedAt = {}

\* a fence that is never closed with further lines behind it: one finding, at
\* the line of that fence
C9_Witness ==
    /\ tool = "markdown"
    /\ pc = "md_return"
    /\ Len(lines) > 1
    /\ FenceLines(Len(lines)) # {}
    /\ Largest(FenceLines(Len(lines))) < Len(lines)
    /\ Cardinality(UnclosedAt) = 1
    /\ \E e \in UnclosedAt : errors[e].line_num = Largest(FenceLines(Len(lines)))

\* C10: the findings printed for one file are in ascending order of line
\* number, for the markdown validator and for the Java 8 validator.
C10_SortedByLine ==
    tool \in {"markdown", "java8"} =>
        \A a, b \in DOMAIN printed :
            a < b /\ printed[a].file = printed[b].file =>
                printed[a].line_num <= printed[b].line_num

\* the entries of the plugin list that an iteration of _validate_plugins has
\* gone through to its end
Completed == 1..idx

\* the path a source names behind its "./"
NamedPath(source) == SubSeq(source.s, 3, Len(source.s))

SourceErrors(n) == {k \in DOMAIN errors : errors[k].idx = n /\ errors[k].field = "source"}

\* C11: for a source that begins with "./", the source check gives exactly one
\* Error when the path written behind "./" is not an existing directory under
\* the base directory, and none when it is.
C11_SourceExists ==
    tool = "marketplace" /\ data.t = "object" /\ data.plugins.t = "list" =>
        \A k \in Completed :
            /\ Entries[k].t = "object"
            /\ Entries[k].source.t = "str"
            /\ StartsWith(Entries[k].source.s, DotSlash)
            => Cardinality(SourceErrors(k - 1))
                 = IF NamedPath(Entries[k].source) \in ExistingDirs THEN 0 ELSE 1

\* C12: validate() called a second time on the same validator object leaves
\* the same diagnostic lists and returns the same value as the first call.
C12_Idempotent ==
    tool = "marketplace_twice" /\ reruns = 1 /\ pc = "mk_report" =>
        Result(errors, warnings, success) = first

ComponentTypes == {"agents", "commands", "skills"}

ComponentsOf(plugin, ctype) ==
    CASE ctype = "agents" -> plugin.agents
      [] ctype = "commands" -> plugin.commands
      [] OTHER -> plugin.skills

\* the component has a path that names an existing regular file under the
\* directory the plugin's source names
ResolvesToFile(plugin, component) ==
    /\ component.path.t = "str"
    /\ plugin.source.t = "str"
    /\ StartsWith(plugin.source.s, DotSlash)
    /\ JoinPath(NamedPath(plugin.source), component.path.s) \in ExistingFiles

ComponentErrors(n, ctype, c) ==
    {k \in DOMAIN errors :
        errors[k].idx = n /\ errors[k].field = ctype /\ errors[k].cidx = c}

\* C13: every entry of agents / commands / skills whose path is missing or
\* does not name an existing regular file under the plugin's source directory
\* gets an Error, also when the plugin's source is absent or invalid and when
\* the path names a directory.
C13_ComponentFiles ==
    tool = "marketplace" /\ data.t = "object" /\ data.plugins.t = "list" =>
        \A k \in Completed : \A ctype \in ComponentTypes :
            Entries[k].t = "object" /\ ComponentsOf(Entries[k], ctype).t = "list" =>
                \A c \in DOMAIN ComponentsOf(Entries[k], ctype).items :
                    LET component == ComponentsOf(Entries[k], ctype).items[c]
                    IN component.t = "object" /\ ~ResolvesToFile(Entries[k], component)
                       => ComponentErrors(k - 1, ctype, c - 1) # {}

\* C13, the case of a directory: under an existing source, a path that names
\* no regular file gets an Error.
C13_DirectoryIsNoFile ==
    tool = "marketplace" /\ data.t = "object" /\ data.plugins.t = "list" =>
        \A k \in Completed : \A ctype \in ComponentTypes :
            Entries[k].t = "object" /\ ComponentsOf(Entries[k], ctype).t = "list" =>
                \A c \in DOMAIN ComponentsOf(Entries[k], ctype).items :
                    LET component == ComponentsOf(Entries[k], ctype).items[c]
                    IN /\ component.t = "object"
                       /\ component.path.t = "str"
                       /\ Entries[k].source = SrcP
                       /\ ~ResolvesToFile(Entries[k], component)
                       => ComponentErrors(k - 1, ctype, c - 1) # {}

WrongKind(field, kind) == field.t \notin {"absent", kind}

ComponentMismatch(components) ==
    \/ WrongKind(components, "list")
    \/ /\ components.t = "list"
       /\ \E c \in DOMAIN components.items :
             \/ components.items[c].t # "object"
             \/ WrongKind(components.items[c].path, "str")

PluginMismatch(plugin) ==
    \/ plugin.t # "object"
    \/ /\ plugin.t = "object"
       /\ \/ WrongKind(plugin.name, "str")
          \/ WrongKind(plugin.source, "str")
          \/ WrongKind(plugin.version, "str")
          \/ WrongKind(plugin.description, "str")
          \/ \E ctype \in ComponentTypes : ComponentMismatch(ComponentsOf(plugin, ctype))

\* some value of the manifest is not of the kind the schema gives it
TypeMismatch(m) ==
    \/ m.t # "object"
    \/ /\ m.t = "object"
       /\ \/ WrongKind(m.plugins, "list")
          \/ /\ m.plugins.t = "list"
             /\ \E k \in DOMAIN m.plugins.items : PluginMismatch(m.plugins.items[k])

\* C14: a manifest with a value of the wrong kind (plugins not an array, an
\* entry not an object, name / source / version / description not a string, a
\* component collection not an array of objects with a string path) gets an
\* Error diagnostic and fails; it is neither accepted nor does it raise.
C14_TypesChecked ==
    tool = "marketplace" /\ argv = "ok" /\ fileRead = "ok" /\ TypeMismatch(manifest) =>
        /\ pc # "raised"
        /\ pc = "exited" => errors # <<>> /\ success = "false" /\ exitCode = 1

\* the run of the marketplace validator on a manifest it has loaded is over
LoadedRunOver == tool = "marketplace" /\ argv = "ok" /\ fileRead = "ok" /\ pc = "exited"

\* C7, over whole runs: when the run is over, every entry that has the name of
\* an earlier entry has its duplicate-name Error, and no other entry has one.
C7_EveryDuplicateReported ==
    LoadedRunOver /\ data.t = "object" /\ data.plugins.t = "list" =>
        \A k \in DOMAIN Entries :
            HasName(Entries[k]) =>
                Occurrences(errors, MkError("error", k - 1, "name", -1, "",
                                            "Duplicate plugin name", Entries[k].name.s))
                  = IF EarlierSameName(k) THEN 1 ELSE 0

MissingField(n, field) ==
    MkError("error", n, "", -1, "", "Missing required field '" \o field \o "'", <<>>)

MissingPath(n, ctype, c) ==
    MkError("error", n, ctype, c, "", "Missing required field 'path'", <<>>)

\* C15: when the run is over, a manifest without plugins, a plugin entry
\* without name, a plugin entry without source and a component entry without
\* path each have exactly one 'Missing required field' Error for that absence,
\* and the run has returned False.
C15_RequiredFields ==
    LoadedRunOver /\ data.t \in {"object", "list"} =>
        /\ data.t = "list" \/ data.plugins.t = "absent" =>
              /\ Occurrences(errors, MkError("error", -1, "marketplace.json", -1, "",
                                             "Missing required field 'plugins'", <<>>)) = 1
              /\ success = "false"
        /\ data.t = "object" /\ data.plugins.t = "list" =>
              \A k \in DOMAIN Entries :
                  Entries[k].t = "object" =>
                      /\ Entries[k].name.t = "absent" =>
                            /\ Occurrences(errors, MissingField(k - 1, "name")) = 1
                            /\ success = "false"
                      /\ Entries[k].source.t = "absent" =>
                            /\ Occurrences(errors, MissingField(k - 1, "source")) = 1
                            /\ success = "false"
                      /\ \A ctype \in ComponentTypes :
                            ComponentsOf(Entries[k], ctype).t = "list" =>
                                \A c \in DOMAIN ComponentsOf(Entries[k], ctype).items :
                                    LET component == ComponentsOf(Entries[k], ctype).items[c]
                                    IN component.t = "object" /\ component.path.t = "absent" =>
                                          /\ Occurrences(errors,
                                                MissingPath(k - 1, ctype, c - 1)) = 1
                                          /\ success = "false"

\* validate_recipe has run its compilation step on a .java file
Compiled ==
    /\ tool = "recipe"
    /\ argv = "ok" /\ pathKind = "file" /\ fileRead = "ok" /\ suffix = "java"
    /\ ~skip_compile
    /\ pc \in {"rc_results", "rc_exit", "exited"}

CompilationFailed == \E k \in DOMAIN errors : errors[k] = "Compilation failed"

\* C16: whatever running javac yields (exit 0, non-zero exit, timeout, no
\* executable, another exception), compile_with_javac returns a (success,
\* message) pair and nothing is raised; a non-zero exit and a timeout leave a
\* diagnostic; validate_recipe goes on to its result section, prints it and
\* returns a boolean.
C16_JavacNeverCrashes ==
    tool = "recipe" =>
        /\ pc # "raised"
        /\ \A o \in JavacOutcomes :
              /\ compile_with_javac(o).success \in BOOLEAN
              /\ compile_with_javac(o).message \in STRING
        /\ pc = "rc_compile" => ENABLED RcCompile
        /\ Compiled /\ javac \in {"failed", "timeout"} => CompilationFailed
        /\ Compiled /\ javac \in {"failed", "failed_named", "timeout"} =>
              \/ CompilationFailed
              \/ \E k \in DOMAIN printed : printed[k].level = "warning"
        /\ Compiled /\ pc \in {"rc_exit", "exited"} =>
              /\ success \in {"true", "false"}
              /\ CompilationFailed <=> javac \in {"failed", "timeout", "exception"}
              /\ CompilationFailed =>
                    /\ success = "false"
                    /\ \E k \in DOMAIN printed :
                          printed[k] = [level |-> "error", text |-> "Compilation failed"]
        /\ Compiled /\ pc = "exited" => exitCode = IF success = "true" THEN 0 ELSE 1

\* javac ran into the timeout: the run has ended with 'Compilation failed'
\* among its errors, False and status 1
C16_Witness ==
    /\ Compiled
    /\ javac = "timeout"
    /\ pc = "exited"
    /\ CompilationFailed
    /\ success = "false"
    /\ exitCode = 1

\* the same findings, each as often, in whatever order
SameFindings(a, b) ==
    /\ Len(a) = Len(b)
    /\ \A k \in DOMAIN a : Occurrences(a, a[k]) = Occurrences(b, a[k])

\* what validate() of a marketplace validator leaves when its two checks are
\* called in the order of the source
InSourceOrder == RunMkRules(MkRules, Outcome(<<>>, <<>>, FALSE), data)

\* C17: the checks of validate() read the document only, so the order of
\* their calls does not matter. With the four _check_* methods of
\* MarkdownValidator called in any order, validate() collects the findings
\* that the order of the source collects, each as often, and so is empty or
\* not alike; with _validate_structure and _validate_plugins called in either
\* order, validate() leaves the same errors and the same warnings and returns
\* the same value, or raises in both orders. Only the positions in the lists
\* differ. The runs of the tools collect what the order of the source gives.
C17_OrderIndependent ==
    /\ (tool = "markdown_rules" /\ pc = "rules_done")
         => /\ SameFindings(errors, RunMdRules(MdRules, <<>>, lines))
            /\ SameFindings(returned, SortedByLine(RunMdRules(MdRules, <<>>, lines)))
    /\ (tool = "marketplace_rules" /\ pc = "rules_done")
         => /\ ~InSourceOrder.r
            /\ SameFindings(errors, InSourceOrder.e)
            /\ SameFindings(warnings, InSourceOrder.w)
            /\ success = ValidateResult(InSourceOrder.e)
    /\ (tool = "marketplace_rules" /\ pc = "raised") => InSourceOrder.r
    /\ (tool = "markdown" /\ pc = "md_return")
         => errors = RunMdRules(MdRules, <<>>, lines)
    /\ (tool = "marketplace" /\ fileRead = "ok" /\ pc = "mk_report")
         => /\ ~InSourceOrder.r
            /\ errors = InSourceOrder.e
            /\ warnings = InSourceOrder.w
    /\ (tool = "marketplace" /\ fileRead = "ok" /\ pc = "raised") => InSourceOrder.r

\* the checks of a markdown file were called in another order than the
\* source's and left the same findings at other positions; or the checks of
\* a manifest were called plugins first and left an error of either check
C17_Witness ==
    \/ /\ tool = "markdown_rules"
       /\ pc = "rules_done"
       /\ order # MdRules
       /\ errors # RunMdRules(MdRules, <<>>, lines)
       /\ Len(errors) >= 2
    \/ /\ tool = "marketplace_rules"
       /\ pc = "rules_done"
       /\ order # MkRules
       /\ errors # InSourceOrder.e

\* the verdict a closing line gives, in its words or by saying that there is
\* no error
Verdict(s) ==
    IF s.line = "Validation FAILED: {} error(s), {} warning(s)" THEN "FAILED"
    ELSE IF s.line \in {"Validation PASSED with {} warning(s)",
                        "Validation PASSED: No errors or warnings",
                        "No validation errors found!"} THEN "PASSED"
    ELSE "none"

\* the closing line says that there are n errors: in a number, in words, or
\* for no error by its verdict
StatesErrors(s, n) ==
    \/ s.line = "Validation FAILED: {} error(s), {} warning(s)" /\ s.args[1] = n
    \/ s.line = "Validation PASSED with {} warning(s)" /\ n = 0
    \/ s.line = "Validation PASSED: No errors or warnings" /\ n = 0
    \/ s.line = "Total: {} error(s)" /\ s.args[1] = n
    \/ s.line = "No validation errors found!" /\ n = 0

\* the closing line says that there are n warnings, in a number or in words
StatesWarnings(s, n) ==
    \/ s.line = "Validation FAILED: {} error(s), {} warning(s)" /\ s.args[2] = n
    \/ s.line = "Validation PASSED with {} warning(s)" /\ s.args[1] = n
    \/ s.line = "Validation PASSED: No errors or warnings" /\ n = 0

\* print_report or print_results has printed
Reported == pc \in {"mk_exit", "md_exit"}

\* C18: once the reporter has printed, the errors stand before the warnings,
\* every line of a diagnostic carries its severity, the closing line states
\* the number of errors and, where the validator has warnings, the number of
\* warnings, and gives a verdict, and the verdict of print_report is FAILED
\* exactly when validate() returned False.
C18_ReportRendered ==
    Reported =>
        /\ \A k \in DOMAIN printed : "level" \in DOMAIN printed[k]
        /\ \A a, b \in DOMAIN printed :
               printed[a].level = "warning" /\ printed[b].level = "error" => b < a
        /\ IF pc = "mk_exit"
           THEN StatesErrors(summary, Len(errors)) /\ StatesWarnings(summary, Len(warnings))
           ELSE StatesErrors(summary, Len(printed))
        /\ Verdict(summary) \in {"FAILED", "PASSED"}
        /\ pc = "mk_exit" => (Verdict(summary) = "FAILED" <=> success = "false")

\* C18, print_report alone and without the numbers of the closing line:
\* errors before warnings, all of them and each once, a severity on every
\* line, and the verdict FAILED exactly when validate() returned False
C18_PrintReport ==
    pc = "mk_exit" =>
        /\ printed = errors \o warnings
        /\ \A k \in DOMAIN printed :
               /\ printed[k].level = (IF k <= Len(errors) THEN "error" ELSE "warning")
               /\ {"idx", "field", "message"} \subseteq DOMAIN printed[k]
        /\ Verdict(summary) = (IF success = "false" THEN "FAILED" ELSE "PASSED")
        /\ errors # <<>> =>
               StatesErrors(summary, Len(errors)) /\ StatesWarnings(summary, Len(warnings))

\* print_report has printed errors and warnings of one manifest
C18_PrintReportWitness ==
    /\ pc = "mk_exit"
    /\ errors # <<>>
    /\ warnings # <<>>
    /\ printed = errors \o warnings
    /\ Verdict(summary) = "FAILED"

\* a Java file of the run could not be read or decoded
UnreadableJava == \E k \in DOMAIN files : files[k].read # "ok"

\* C19: validate_java8.py ends with status 2 when an error occurred, a Java
\* file that cannot be read or decoded included, and otherwise with status 0
\* when no violation was found and status 1 when violations were found.
C19_Java8ExitCodes ==
    (tool = "java8" /\ pc = "exited") =>
        exitCode = (IF UsageFailure \/ UnreadableJava THEN 2
                    ELSE IF violations = <<>> THEN 0 ELSE 1)

\* list a is the front of list b
IsPrefix(a, b) == Len(a) <= Len(b) /\ SubSeq(b, 1, Len(a)) = a

\* C20: but for the step that makes a new MarkdownValidator for the next
\* file, every step leaves the diagnostics collected so far in place: the
\* lists of errors, warnings and violations only grow at their end. The step
\* of print_report, print_results and report changes neither these lists,
\* nor what validate() returned, nor the loaded document.
C20_AppendOnly ==
    [][/\ pc # "md_new" =>
              /\ IsPrefix(errors, errors')
              /\ IsPrefix(warnings, warnings')
              /\ IsPrefix(violations, violations')
       /\ pc \in {"mk_report", "md_print", "jv_report"} /\ pc' \in {"mk_exit", "md_exit", "exited"} =>
              UNCHANGED <<errors, warnings, violations, returned, results, data, lines,
                          files>>]_vars

\* print_report has printed a run in which _validate_structure and two
\* iterations of _validate_plugins each added an error; or four checks of a
\* markdown file, called in another order than the source's, each added a
\* finding
C20_Witness ==
    \/ /\ tool = "marketplace"
       /\ pc = "mk_exit"
       /\ printed = errors \o warnings
       /\ \E a, b, c \in DOMAIN errors : errors[a].idx < errors[b].idx /\ errors[b].idx < errors[c].idx
    \/ /\ tool = "markdown_rules"
       /\ pc = "rules_done"
       /\ order # MdRules
       /\ Len(errors) >= 3

\* validate_recipe has gone through the checks of a .java file
JavaChecked ==
    /\ tool = "recipe"
    /\ argv = "ok" /\ pathKind = "file" /\ fileRead = "ok" /\ suffix = "java"
    /\ pc \in {"rc_results", "rc_exit", "exited"}

\* what the compilation step has printed
CompilePrinted ==
    {k \in DOMAIN printed :
        printed[k].text \in {"Compilation successful", "javac not found"}}

\* C21: on a .java file, with --no-compile nothing of the compilation is
\* printed or recorded; when javac is not on the PATH the step prints a
\* warning and adds no error; when javac runs and succeeds it adds no error;
\* every other failure of the compilation (non-zero exit, timeout, another
\* exception) adds exactly one 'Compilation failed' error.
C21_CompileRule ==
    JavaChecked =>
        /\ skip_compile => ~CompilationFailed /\ CompilePrinted = {}
        /\ ~skip_compile /\ javac = "notfound" =>
               /\ ~CompilationFailed
               /\ \E k \in CompilePrinted :
                      printed[k] = [level |-> "warning", text |-> "javac not found"]
        /\ ~skip_compile /\ javac = "ok" => ~CompilationFailed
        /\ ~skip_compile /\ javac \in {"failed", "failed_named", "timeout", "exception"} =>
               Occurrences(errors, "Compilation failed") = 1

\* how many lines the loop of _check_code_blocks has gone through
CodeScanned ==
    IF pc \in {"md_validate", "md_heading"} THEN 0
    ELSE IF pc = "md_code" THEN i - 1
    ELSE Len(lines)

\* line n is a fence that opens a block: the fence lines before it pair up
OpeningFence(n) == IsFence(lines[n]) /\ ~Odd(Cardinality(FenceLines(n - 1)))

LangErrors == {k \in DOMAIN errors : errors[k].error_type = "CODE_BLOCK_LANG"}

\* C22: CODE_BLOCK_LANG is reported for a line, once and at its number,
\* exactly when the line is a fence met outside a block and nothing but
\* white space follows its three backquotes; a fence that closes a block gives
\* none, and there are never more CODE_BLOCK_LANG findings than opening
\* fences. Blanks behind the backquotes count as nothing, a fourth backquote
\* as a language.
C22_LangOnOpeningFence ==
    /\ tool = "markdown" =>
          /\ \A n \in DOMAIN lines :
                Occurrences(errors, MdError(n, "CODE_BLOCK_LANG"))
                  = IF n <= CodeScanned /\ OpeningFence(n) /\ FenceContent(lines[n]) = <<>>
                    THEN 1 ELSE 0
          /\ \A e \in LangErrors : errors[e].line_num \in DOMAIN lines
          /\ Cardinality(LangErrors)
               <= Cardinality({n \in DOMAIN lines : OpeningFence(n)})
    /\ CodeBlockLangErrors(1, Fence3 \o <<" ", "\t">>) = <<MdError(1, "CODE_BLOCK_LANG")>>
    /\ CodeBlockLangErrors(1, Fence3 \o <<BQ>>) = <<>>
    /\ CodeBlockLangErrors(1, Fence3 \o <<" ", "p">>) = <<>>

\* a bare fence opens a block and a bare fence closes it: one CODE_BLOCK_LANG,
\* at the opening line, none at the closing line
C22_Witness ==
    /\ tool = "markdown"
    /\ pc = "md_return"
    /\ \E n \in DOMAIN lines :
          /\ n > 1
          /\ lines[n] = Fence3
          /\ ~OpeningFence(n)
          /\ lines[n - 1] = Fence3
          /\ OpeningFence(n - 1)
          /\ Occurrences(errors, MdError(n - 1, "CODE_BLOCK_LANG")) = 1
          /\ Occurrences(errors, MdError(n, "CODE_BLOCK_LANG")) = 0

\* the document with every fence line replaced by a line of plain text: no
\* line of it lies inside a fenced block
RECURSIVE Unfenced(_)
Unfenced(ls) ==
    IF ls = <<>> THEN <<>>
    ELSE <<IF IsFence(Head(ls)) THEN <<"t">> ELSE Head(ls)>> \o Unfenced(Tail(ls))

\* a finding of the heading scan or of _check_basic_structure
HeadingFinding(e) ==
    e.error_type \in {"HEADING_SKIP", "TITLE_CASE", "NO_H1", "MULTIPLE_H1"}

\* line n lies inside a fenced block
InsideBlock(n) == ~IsFence(lines[n]) /\ Odd(Cardinality(FenceLines(n - 1)))

\* C23: the heading scan and _check_basic_structure do not look at the
\* fences. Once validate() has run its checks, the findings HEADING_SKIP,
\* TITLE_CASE, NO_H1 and MULTIPLE_H1 and the levels in heading_levels are
\* those of the same document without its fences, so a line '# ...' inside a
\* fenced block sets the previous level and counts as a top-level heading.
C23_HeadingsIgnoreFences ==
    (tool = "markdown" /\ pc = "md_return") =>
        /\ SelectSeq(errors, HeadingFinding)
             = HeadingScan(Unfenced(lines), 1, 0) \o BasicStructureErrors(Unfenced(lines))
        /\ Len(heading_levels) = Cardinality({n \in DOMAIN lines : IsHeading(lines[n])})
        /\ \A n \in DOMAIN lines :
              InsideBlock(n) /\ StartsWith(lines[n], Hash2) =>
                  /\ Occurrences(errors, MdError(1, "NO_H1")) = 0
                  /\ IsHeading(lines[n]) /\ n < Len(lines) => LastHeadingBefore(n + 1) = 1
        /\ Occurrences(errors, MdError(1, "MULTIPLE_H1"))
             = IF Cardinality({n \in DOMAIN lines : StartsWith(lines[n], Hash2)}) > 1
               THEN 1 ELSE 0

\* the only '# ' line of the document lies inside a fenced block: no NO_H1,
\* and the '### ' line behind it is a skip from level 1
C23_Witness ==
    /\ tool = "markdown"
    /\ pc = "md_return"
    /\ \E n \in DOMAIN lines :
          /\ InsideBlock(n)
          /\ lines[n] = <<"#", " ", "t">>
          /\ \A k \in DOMAIN lines : k # n => ~StartsWith(lines[k], Hash2)
          /\ n < Len(lines)
          /\ HeadingLevel(lines[n + 1]) = 3
          /\ Occurrences(errors, MdError(n + 1, "HEADING_SKIP")) = 1
          /\ Occurrences(errors, MdError(1, "NO_H1")) = 0
          /\ heading_levels = <<1, 3>>

\* what validate() returns for file f: the findings of the four checks in the
\* order of their lines, or the one FILE_ERROR of a file that cannot be read
FindingsOf(f) ==
    IF f.read = "ok"
    THEN SortedByLine(RunMdRules(MdRules, <<>>, f.text))
    ELSE <<MdError(0, "FILE_ERROR")>>

\* the files of the directory with at least one finding
FilesWithFindings == {k \in DOMAIN files : FindingsOf(files[k]) # <<>>}

RECURSIVE SumOver(_, _)
SumOver(S, f) ==
    IF S = {} THEN 0
    ELSE LET k == CHOOSE x \in S : TRUE IN Len(FindingsOf(f[k])) + SumOver(S \ {k}, f)

\* validate_directory has returned
DirectoryDone ==
    /\ tool = "markdown"
    /\ argv = "ok"
    /\ pathKind = "dir"
    /\ pc \in {"md_print", "md_exit", "exited"}

\* C24: in directory mode the results hold one entry for every file with at
\* least one finding, in the order of the files, with the findings of that
\* file, and none for a file without findings; the total that print_results
\* prints is the sum of the numbers of findings of the listed files; and the
\* status is 1 when the results are not empty and 0 when they are.
C24_DirectoryResults ==
    DirectoryDone =>
        /\ {results[j].file : j \in DOMAIN results} = FilesWithFindings
        /\ Len(results) = Cardinality(FilesWithFindings)
        /\ \A j \in DOMAIN results :
              /\ results[j].errors = FindingsOf(files[results[j].file])
              /\ \A h \in DOMAIN results : h < j => results[h].file < results[j].file
        /\ pc \in {"md_exit", "exited"} =>
              summary = IF FilesWithFindings = {}
                        THEN [line |-> "No validation errors found!", args |-> <<>>]
                        ELSE [line |-> "Total: {} error(s)",
                              args |-> <<SumOver(FilesWithFindings, files)>>]
        /\ pc = "exited" => exitCode = IF results # <<>> THEN 1 ELSE 0

\* a directory of a file without findings and a file with two: one entry in
\* the results, a total of 2 and status 1
C24_Witness ==
    /\ DirectoryDone
    /\ pc = "exited"
    /\ Len(files) = 2
    /\ Cardinality(FilesWithFindings) = 1
    /\ Len(results) = 1
    /\ Len(results[1].errors) = 2
    /\ summary.args = <<2>>
    /\ exitCode = 1

\* the stripped text of the line starts with '//' or '/*'
CommentText(line) ==
    LET t == Strip(line.text)
    IN Len(t) >= 2 /\ t[1] = "/" /\ t[2] \in {"/", "*"}

\* the files validate_file has gone through
JavaScanned ==
    IF pc = "main" THEN 0
    ELSE IF pc = "jv_file" THEN fileIdx - 1
    ELSE Len(files)

\* pattern p matches line n of file k, a file that was read and a line that
\* is no comment line
Violates(k, n, p) ==
    /\ files[k].read = "ok"
    /\ n \in DOMAIN files[k].text
    /\ ~CommentText(files[k].text[n])
    /\ p \in files[k].text[n].hits

\* C25: the violations hold one entry for every pattern and every line of a
\* file gone through such that the line is no comment line and the pattern
\* matches it, with the 1-based number of the line, and nothing else: a
\* comment line gives none, a line that k patterns match gives k, and the
\* files of a directory add to the one list.
C25_ViolationPerPatternAndLine ==
    (tool = "java8" /\ ~UsageFailure) =>
        /\ \A k \in DOMAIN files : \A n \in 1..MaxJavaLines : \A p \in Range(PATTERNS) :
              Occurrences(violations, [file |-> k, line_num |-> n, pattern |-> p])
                = IF k <= JavaScanned /\ Violates(k, n, p) THEN 1 ELSE 0
        /\ Len(violations)
             = Cardinality({t \in (DOMAIN files) \X (1..MaxJavaLines) \X Range(PATTERNS) :
                               t[1] <= JavaScanned /\ Violates(t[1], t[2], t[3])})

\* a file whose first line two patterns match and whose second line is a
\* comment line that a pattern matches: two violations at line 1, none at
\* line 2; or a directory of two files with one violation each
C25_Witness ==
    /\ tool = "java8"
    /\ pc = "exited"
    /\ \/ /\ Len(files) = 1
          /\ files[1].read = "ok"
          /\ Len(files[1].text) = 2
          /\ Cardinality(files[1].text[1].hits) = 2
          /\ CommentText(files[1].text[2])
          /\ files[1].text[2].hits # {}
          /\ Len(violations) = 2
          /\ \A v \in DOMAIN violations : violations[v].line_num = 1
       \/ /\ Len(files) = 2
          /\ Len(violations) = 2
          /\ violations[1].file = 1
          /\ violations[2].file = 2

\* the Errors at the source of entry n (0-based) with the message
SourceErrorsSaying(n, message) ==
    {k \in SourceErrors(n) : errors[k].message = message}

\* the path the existence check looks up for a source without "./" in front:
\* the source without its leading dots and slashes
LookedUp(source) ==
    IF source.s # <<>> /\ source.s[1] \in {".", "/"}
    THEN LStripChars(source.s, {".", "/"}) ELSE source.s

\* C26: for an entry the loop has gone through, a string source that does not
\* begin with "./" gives the prefix Error and the existence check runs all
\* the same: with a path that does not exist the one source gives two Errors,
\* with a file one for the prefix and one for not being a directory, with a
\* directory the prefix Error alone. A source that is no string gives exactly
\* one Error, 'Source must be a string', and none of the existence check.
C26_PrefixAndExistence ==
    tool = "marketplace" /\ data.t = "object" /\ data.plugins.t = "list" =>
        \A k \in Completed :
            Entries[k].t = "object" =>
                /\ Entries[k].source.t = "str" /\ ~StartsWith(Entries[k].source.s, DotSlash) =>
                      /\ Cardinality(SourceErrorsSaying(k - 1, "must start with './'")) = 1
                      /\ Cardinality(SourceErrorsSaying(k - 1, "Source directory does not exist"))
                           = IF PathExists(LookedUp(Entries[k].source)) THEN 0 ELSE 1
                      /\ Cardinality(SourceErrorsSaying(k - 1, "Source path is not a directory"))
                           = IF LookedUp(Entries[k].source) \in ExistingFiles THEN 1 ELSE 0
                      /\ Cardinality(SourceErrors(k - 1))
                           = IF LookedUp(Entries[k].source) \in ExistingDirs THEN 1 ELSE 2
                /\ Entries[k].source.t \notin {"str", "absent"} =>
                      /\ Cardinality(SourceErrors(k - 1)) = 1
                      /\ Cardinality(SourceErrorsSaying(k - 1, "Source must be a string")) = 1

\* the source "m", without "./" and not there, has given two Errors
C26_Witness ==
    /\ tool = "marketplace"
    /\ pc = "mk_report"
    /\ data.t = "object"
    /\ data.plugins.t = "list"
    /\ \E k \in Completed :
          /\ Entries[k].t = "object"
          /\ Entries[k].source = Str(<<"m">>)
          /\ Cardinality(SourceErrors(k - 1)) = 2
          /\ Cardinality(SourceErrorsSaying(k - 1, "must start with './'")) = 1
          /\ Cardinality(SourceErrorsSaying(k - 1, "Source directory does not exist")) = 1

\* the directory <output>/<name> was there when the process started
TargetExisted == Exists(fs0, output_dir, plugin_name, "")

\* the scaffold of create_directory_structure: the entries below the plugin
\* directory
Scaffold ==
    {Dir(output_dir, plugin_name, ""),
     Dir(output_dir, plugin_name, ".claude-plugin"),
     Dir(output_dir, plugin_name, "agents"),
     Dir(output_dir, plugin_name, "commands"),
     Dir(output_dir, plugin_name, "skills"),
     FsEntry(output_dir, plugin_name, ".claude-plugin/plugin.json", "file", "plugin_json"),
     FsEntry(output_dir, plugin_name, "README.md", "file", "readme_content"),
     FsEntry(output_dir, plugin_name, "SKILLS.md", "file", "skills_content"),
     FsEntry(output_dir, plugin_name, "agents/.gitkeep", "file", ""),
     FsEntry(output_dir, plugin_name, "commands/.gitkeep", "file", ""),
     FsEntry(output_dir, plugin_name, "skills/.gitkeep", "file", "")}

\* the name is one of kebab-case: lower-case letters, digits and single
\* hyphens between them
KebabCase(name) ==
    /\ name # <<>>
    /\ name[1] # "-"
    /\ name[Len(name)] # "-"
    /\ \A k \in DOMAIN name :
          /\ name[k] \in LowerCase \cup Digits \cup {"-"}
          /\ k > 1 /\ name[k] = "-" => name[k - 1] # "-"

\* C27: a run of init_plugin.py whose name is not kebab-case, or whose
\* directory <output>/<name> is there already, never changes the file system
\* and ends with status 1; a run that ends with status 0 has made the
\* plugin directory with .claude-plugin/plugin.json, README.md, SKILLS.md and
\* agents, commands and skills, each with a .gitkeep, and has left
\* everything that was there before as it was.
C27_NothingOnRejection ==
    (tool = "init_plugin" /\ argv = "ok") =>
        /\ ~KebabCase(plugin_name) \/ TargetExisted =>
              /\ fs = fs0
              /\ pc \in {"main", "ip_exists", "exited"}
              /\ pc = "exited" => exitCode = 1
        /\ (pc = "exited" /\ exitCode = 0) =>
              /\ Scaffold \subseteq fs
              /\ fs0 \subseteq fs
              /\ fs \ fs0 \subseteq Scaffold \cup {Dir(output_dir, <<>>, "")}
        /\ (pc = "exited" /\ KebabCase(plugin_name) /\ ~TargetExisted /\ writable) =>
              exitCode = 0

\* the directory <output>/<name> was there with a README.md of its own: the
\* run has ended with status 1 and the README.md is the old one
C27_Witness ==
    /\ tool = "init_plugin"
    /\ pc = "exited"
    /\ exitCode = 1
    /\ KebabCase(plugin_name)
    /\ FsEntry(output_dir, plugin_name, "README.md", "file", "old") \in fs0
    /\ fs = fs0

=============================================================================
